---- MODULE Spec2Model ----
(***************************************************************************)
(* Model of the incremental indexing pipeline of ast_indexer_rust          *)
(* (src/mcp-server-go/internal/services/ast_indexer_rust/src/main.rs).     *)
(*                                                                         *)
(* One index run (run_indexer) is: discovery and strategy selection        *)
(* (StartRun), the parallel workers (WorkerStart, WorkerRead: one rayon    *)
(* task per discovered file), the single consumer on the main thread       *)
(* (Consume, JoinCommit), the final transaction (Link, Cleanup,            *)
(* FinalCommit) and the summary (Finish).  Between runs the file tree is   *)
(* edited by the environment (WriteFile, DeleteFile).                      *)
(*                                                                         *)
(* Modelling decisions:                                                    *)
(*  - files are keyed by file_path; file_id is in bijection with the path  *)
(*    of an existing row (file_path is UNIQUE), so symbols carry the path; *)
(*  - a hash is the tagged content it was computed from (SHA-256 taken as  *)
(*    injective), the sentinel of a meta row is <<"meta", size, mtime>>;   *)
(*  - canonical_id "<prefix>:<path>::<name>" is <<prefix, path, name>>;    *)
(*  - the connection never issues PRAGMA foreign_keys, so whether ON       *)
(*    DELETE CASCADE fires is decided by how SQLite was built              *)
(*    (SQLITE_DEFAULT_FOREIGN_KEYS): foreign_keys is chosen in Init;       *)
(*  - the file tree does not change while a run is in progress;            *)
(*  - args.scope and args.extensions are absent (their defaults).          *)
(***************************************************************************)
EXTENDS Integers, Sequences, FiniteSets, TLC

\* ------------------------------------------------------------------ bounds
\* index runs explored from the empty database
MaxRuns == 2
\* edits of the file tree between runs
MaxEdits == 1
\* let batch_size: usize = 300, scaled to the size of the modelled tree so
\* that batches are committed in the middle of a run
batch_size == 1

\* ------------------------------------------------------- inputs of the model
Paths == {"a.py", "b.py", "c.py"}

\* Spec explores a tree of at most two files, edited between runs;
\* SpecBootstrap a fixed tree of three files.
EditablePaths == {"a.py", "b.py"}

Mtimes == {1, 2}

Absent == [content |-> "absent", mtime |-> 0]

\* File contents the environment can write.  "latin1" is not valid UTF-8.
Contents == {"foo_calls_bar", "bar_only", "foo_only", "latin1"}

\* A content that defines bar and foo, foo calling bar
MoreContents == Contents \cup {"bar_and_foo_calls_bar"}

\* fs::metadata(path).len()
Size(c) ==
    CASE c = "foo_calls_bar" -> 2
      [] c = "bar_only" -> 1
      [] c = "foo_only" -> 1
      [] c = "latin1" -> 1
      [] c = "bar_and_foo_calls_bar" -> 3
      [] c = "two_classes" -> 4
      [] OTHER -> 0

\* fs::read_to_string succeeds iff the bytes are valid UTF-8
Readable(c) == c # "latin1"

\* The invocations explored: --force-full and the values of
\* MPM_AST_HUGE_FILE_THRESHOLD and MPM_AST_BOOTSTRAP_MAX_PARSE (50_000 and
\* 5_000 are the defaults; a threshold of 1 makes a tree of two files huge).
ArgChoices ==
    {[force_full |-> FALSE, huge_threshold |-> 50000, bootstrap_parse_budget |-> 5000],
     [force_full |-> FALSE, huge_threshold |-> 1, bootstrap_parse_budget |-> 0],
     [force_full |-> FALSE, huge_threshold |-> 1, bootstrap_parse_budget |-> 1],
     [force_full |-> FALSE, huge_threshold |-> 1, bootstrap_parse_budget |-> 5000],
     [force_full |-> TRUE, huge_threshold |-> 1, bootstrap_parse_budget |-> 1]}

\* The invocations of SpecCrash: the defaults, and a bootstrap of one file
CrashArgChoices ==
    {[force_full |-> FALSE, huge_threshold |-> 50000, bootstrap_parse_budget |-> 5000],
     [force_full |-> FALSE, huge_threshold |-> 1, bootstrap_parse_budget |-> 1]}

\* The invocations of SpecBootstrap: every tree of two files or more is huge
BootstrapArgChoices ==
    {[force_full |-> FALSE, huge_threshold |-> 1, bootstrap_parse_budget |-> 1],
     [force_full |-> FALSE, huge_threshold |-> 1, bootstrap_parse_budget |-> 2],
     [force_full |-> FALSE, huge_threshold |-> 1, bootstrap_parse_budget |-> 5000]}

\* ------------------------------------------------------------ pure helpers
\* hex::encode(Sha256(content))
calculate_hash(c) == <<"sha256", c>>

\* format!("meta:{}:{}", file_size, file_mtime)
MetaHash(size, mtime) == <<"meta", size, mtime>>

\* Parser + extraction: pending symbols and pending calls of a content
ExtractSymbols(c) ==
    CASE c = "foo_calls_bar" ->
            <<[temp_id |-> 1, name |-> "foo", symbol_type |-> "function"]>>
      [] c = "bar_only" ->
            <<[temp_id |-> 1, name |-> "bar", symbol_type |-> "function"]>>
      [] c = "foo_only" ->
            <<[temp_id |-> 1, name |-> "foo", symbol_type |-> "function"]>>
      [] c = "bar_and_foo_calls_bar" ->
            <<[temp_id |-> 1, name |-> "bar", symbol_type |-> "function"],
              [temp_id |-> 2, name |-> "foo", symbol_type |-> "function"]>>
      [] c = "two_classes" ->
            <<[temp_id |-> 1, name |-> "A", symbol_type |-> "class",
               scope_path |-> "A"],
              [temp_id |-> 2, name |-> "run", symbol_type |-> "function",
               scope_path |-> "A::run"],
              [temp_id |-> 3, name |-> "B", symbol_type |-> "class",
               scope_path |-> "B"],
              [temp_id |-> 4, name |-> "run", symbol_type |-> "function",
               scope_path |-> "B::run"]>>
      [] OTHER -> <<>>

\* scope_path of a pending symbol: the names of the enclosing classes and
\* functions and its own, joined by "::"; the name itself at top level
ScopePath(sym) ==
    IF "scope_path" \in DOMAIN sym THEN sym.scope_path ELSE sym.name

ExtractCalls(c) ==
    CASE c = "foo_calls_bar" ->
            <<[caller_temp_id |-> 1, callee_name |-> "bar", line |-> 1]>>
      [] c = "bar_and_foo_calls_bar" ->
            <<[caller_temp_id |-> 2, callee_name |-> "bar", line |-> 2]>>
      [] c = "two_classes" ->
            <<[caller_temp_id |-> 4, callee_name |-> "bar", line |-> 4]>>
      [] OTHER -> <<>>

\* Extension of a path, lower-cased
Ext(p) == "py"

\* get_parser_setup(): the extensions that have a grammar
SupportedExts == {"py", "js", "mjs", "cjs", "ts", "tsx", "go", "rs",
                  "java", "c", "h", "cpp", "cc", "hpp"}

Range(s) == {s[i] : i \in DOMAIN s}

\* the concatenation of a sequence of sequences
RECURSIVE Flatten(_)
Flatten(ss) == IF ss = <<>> THEN <<>> ELSE Head(ss) \o Flatten(Tail(ss))

NULL == <<"null">>

\* The database after init_db on a new file: three empty tables and the
\* AUTOINCREMENT sequences of symbols and calls.
EmptyDb == [files |-> <<>>, symbols |-> {}, calls |-> {},
            seq_symbols |-> 0, seq_calls |-> 0]

VARIABLES
    disk,            \* the project tree: path -> [content, mtime] or Absent
    foreign_keys,    \* whether this build of SQLite enforces foreign keys
    committed,       \* the database as of the last commit
    db,              \* the database as seen inside the open transaction
    pc,              \* position of the main thread in run_indexer
    runs,            \* index runs started so far
    edits,           \* edits of the tree so far
    args,            \* force_full and the two environment tunables
    entries,         \* the discovered files
    db_files,        \* the pre-loaded file metadata (path -> DbFileMeta)
    strategy,        \* the selected strategy
    parse_counter,   \* AtomicUsize: budget consumed
    parsed_counter,
    meta_counter,
    skipped_counter,
    wpc,             \* position of the rayon task of each path
    chan,            \* the mpsc channel: ParseResults sent, not yet received
    processed_count,
    changed_in_batch,
    summary,         \* the IndexResult written by the run that just returned
    reads,           \* history: paths whose content was read in this run
    sent,            \* history: <<path, language>> of the ParseResults sent
    start_db,        \* history: the database when this run started
    dirty,           \* history: the tree was edited since the last run started
    unchanged,       \* history: this run follows a run, with no edit in between
    interrupted,     \* history: the run that was killed, and whether this
                     \* run is the one that follows it
    request,         \* the command line of the last query or analyze process
    output,          \* what that process wrote to --output, or how it died
    snapshots        \* the snapshot files: "base", "target" -> file or NoFile

vars == <<disk, foreign_keys, committed, db, pc, runs, edits, args, entries,
          db_files, strategy, parse_counter, parsed_counter, meta_counter,
          skipped_counter, wpc, chan, processed_count, changed_in_batch,
          summary, reads, sent, start_db, dirty, unchanged, interrupted,
          request, output, snapshots>>

treeVars == <<disk, edits>>
dbVars == <<committed, db>>
cfgVars == <<args, entries, db_files, strategy>>
counterVars == <<parse_counter, parsed_counter, meta_counter, skipped_counter>>
consumerVars == <<processed_count, changed_in_batch>>
histVars == <<reads, sent, start_db, dirty, unchanged, interrupted>>
cliVars == <<request, output, snapshots>>

\* ------------------------------------------------------------ file system
\* full_path.exists() / the walker emitting a regular file
Exists(p) == disk[p] # Absent

\* fs::metadata(path): (len, mtime)
file_size(p) == Size(disk[p].content)
file_mtime(p) == disk[p].mtime

\* mutant of indexed_at: the test is inverted
indexed_at_Inverted(res) == IF res.index_level = "symbol" THEN 0 ELSE 1

\* if res.index_level == "symbol" { now } else { 0 }: the time of the write,
\* some second after the epoch, is 1
indexed_at(res) == IF res.index_level = "symbol" THEN 1 ELSE 0

\* ------------------------------------------------- statements on a database
\* stmt_upsert_file: INSERT ... ON CONFLICT(file_path) DO UPDATE SET ...
UpsertFile(d, res) ==
    [d EXCEPT !.files =
        (res.file_path :> [file_hash |-> res.file_hash,
                           file_size |-> res.file_size,
                           file_mtime |-> res.file_mtime,
                           language |-> res.language,
                           index_level |-> res.index_level,
                           indexed_at |-> indexed_at(res)]) @@ @]

\* FOREIGN KEY (caller_id) REFERENCES symbols(symbol_id) ON DELETE CASCADE:
\* the call rows that go with deleted symbol rows, when the constraint is
\* enforced at all.
CascadeCalls(fk, calls, gone_ids) ==
    IF fk THEN {c \in calls : c.caller_id \notin gone_ids} ELSE calls

\* mutant of DeleteSymbols: the delete is forgotten
DeleteSymbols_Forgotten(d, fk, p) == d

\* DELETE FROM symbols WHERE file_id = ?1
DeleteSymbols(d, fk, p) ==
    LET gone == {s \in d.symbols : s.file = p}
    IN  [d EXCEPT !.symbols = @ \ gone,
                  !.calls = CascadeCalls(fk, @, {s.symbol_id : s \in gone})]

\* let prefix = if sym.symbol_type == "class" { "class" } else { "func" };
\* format!("{}:{}::{}", prefix, res.file_path, sym.name)
CanonicalId(p, sym) ==
    <<IF sym.symbol_type = "class" THEN "class" ELSE "func", p, sym.name>>

\* the symbol inserts of one ParseResult; row ids continue the sequence.
\* The symbols of the contents are top-level, so qualified_name is the
\* name, and the i-th of them is the one line i of the file.
InsertSymbols(d, res) ==
    LET n == Len(res.symbols)
        row(i) == [symbol_id |-> d.seq_symbols + i,
                   file |-> res.file_path,
                   name |-> res.symbols[i].name,
                   qualified_name |-> ScopePath(res.symbols[i]),
                   canonical_id |-> CanonicalId(res.file_path, res.symbols[i]),
                   symbol_type |-> res.symbols[i].symbol_type,
                   line_start |-> res.symbols[i].temp_id,
                   line_end |-> res.symbols[i].temp_id]
    IN  [d EXCEPT !.symbols = @ \cup {row(i) : i \in 1..n},
                  !.seq_symbols = @ + n]

\* temp_to_db_id of a ParseResult inserted when the sequence stood at base
TempToDbId(res, base) ==
    [t \in {res.symbols[i].temp_id : i \in 1..Len(res.symbols)} |->
        base + (CHOOSE i \in 1..Len(res.symbols) :
                    /\ res.symbols[i].temp_id = t
                    /\ \A j \in 1..Len(res.symbols) :
                          res.symbols[j].temp_id = t => j <= i)]

\* the call inserts of one ParseResult: callee_id is left NULL
InsertCalls(d, res, map) ==
    LET kept == SelectSeq(res.calls, LAMBDA c : c.caller_temp_id \in DOMAIN map)
        row(i) == [call_id |-> d.seq_calls + i,
                   caller_id |-> map[kept[i].caller_temp_id],
                   callee_name |-> kept[i].callee_name,
                   call_line |-> kept[i].line,
                   callee_id |-> NULL]
    IN  [d EXCEPT !.calls = @ \cup {row(i) : i \in 1..Len(kept)},
                  !.seq_calls = @ + Len(kept)]

\* mutant of PersistFile: the symbols of the file are deleted after the inserts
PersistFile_DeleteLast(d, fk, res) ==
    LET d1 == UpsertFile(d, res)
        d2 == InsertSymbols(d1, res)
        d3 == InsertCalls(d2, res, TempToDbId(res, d1.seq_symbols))
    IN  IF res.index_level = "meta" THEN DeleteSymbols(d1, fk, res.file_path)
        ELSE DeleteSymbols(d3, fk, res.file_path)

\* mutant of PersistFile: the file row is written, the symbols are not
PersistFile_RowOnly(d, fk, res) == UpsertFile(d, res)

\* The consumer's writes for one non-skip ParseResult (steps 1-3 and the
\* symbol and call inserts)
PersistFile(d, fk, res) ==
    LET d1 == DeleteSymbols(UpsertFile(d, res), fk, res.file_path)
        d2 == InsertSymbols(d1, res)
    IN  IF res.index_level = "meta" THEN d1
        ELSE InsertCalls(d2, res, TempToDbId(res, d1.seq_symbols))

Min(S) == CHOOSE x \in S : \A y \in S : x <= y

\* The subquery of the linking UPDATE for one call row: ORDER BY same file
\* first, then symbol_id ASC, LIMIT 1; NULL when it selects no row.
LinkTarget(d, c) ==
    LET sc == {s \in d.symbols : s.symbol_id = c.caller_id}
        s2 == {s \in d.symbols : s.name = c.callee_name}
        same == {s \in s2 : \E k \in sc : s.file = k.file}
        pick(S) == (CHOOSE s \in S : s.symbol_id = Min({t.symbol_id : t \in S})).canonical_id
    IN  IF sc = {} \/ s2 = {} THEN NULL
        ELSE IF same # {} THEN pick(same) ELSE pick(s2)

\* UPDATE calls SET callee_id = (...) WHERE callee_id IS NULL
LinkCalls(d) ==
    [d EXCEPT !.calls =
        {IF c.callee_id = NULL THEN [c EXCEPT !.callee_id = LinkTarget(d, c)]
                               ELSE c : c \in d.calls}]

\* mutant of CleanupOrphans: the symbols go, the files row stays
CleanupOrphans_KeepRows(d, fk, gone) ==
    LET dead == {s \in d.symbols : s.file \in gone}
    IN  [d EXCEPT !.symbols = @ \ dead,
                  !.calls = CascadeCalls(fk, @, {s.symbol_id : s \in dead})]

\* Orphan cleanup: for every files row whose path does not exist, DELETE
\* FROM symbols WHERE file_id, DELETE FROM files WHERE file_id.
\* gone is the set of stored paths for which full_path.exists() is false.
CleanupOrphans(d, fk, gone) ==
    LET dead == {s \in d.symbols : s.file \in gone}
    IN  [d EXCEPT !.files = [p \in (DOMAIN @) \ gone |-> @[p]],
                  !.symbols = @ \ dead,
                  !.calls = CascadeCalls(fk, @, {s.symbol_id : s \in dead})]

\* ------------------------------------------------------ strategy selection
\* let use_bootstrap_strategy = (initial_build && total > huge_threshold)
\*     || (has_meta_backlog && total > huge_threshold);
UseBootstrapStrategy(files, total, huge_threshold) ==
    LET initial_build == DOMAIN files = {}
        has_meta_backlog == \E p \in DOMAIN files : files[p].index_level = "meta"
    IN  (initial_build /\ total > huge_threshold)
        \/ (has_meta_backlog /\ total > huge_threshold)

\* mutant of SelectStrategy: bootstrap is tested before force_full
SelectStrategy_BootstrapFirst(force_full, use_bootstrap_strategy) ==
    IF use_bootstrap_strategy THEN "bootstrap"
    ELSE IF force_full THEN "force_full"
    ELSE "full_or_incremental"

SelectStrategy(force_full, use_bootstrap_strategy) ==
    IF force_full THEN "force_full"
    ELSE IF use_bootstrap_strategy THEN "bootstrap"
    ELSE "full_or_incremental"

use_bootstrap_strategy ==
    UseBootstrapStrategy(db_files, Cardinality(entries), args.huge_threshold)

NoSummary == [status |-> "none"]

NoArgs == [force_full |-> FALSE, huge_threshold |-> 0,
           bootstrap_parse_budget |-> 0]

\* no index run was killed
NotInterrupted == [phase |-> "none"]

\* a run was killed, and other events have followed the run after it
WasInterrupted == [phase |-> "over"]

\* no query or analyze process has run
NoRequest == [mode |-> "none"]
NoOutput == [status |-> "none"]

\* ============================================================ query engine
\* The strings that the query engine takes apart (symbol names, file paths,
\* the query), as sequences of characters.  U+65E5 and U+672C are written by
\* their code points.
Chars(s) ==
    CASE s = "foo" -> <<"f", "o", "o">>
      [] s = "fob" -> <<"f", "o", "b">>
      [] s = "fo" -> <<"f", "o">>
      [] s = "o" -> <<"o">>
      [] s = "bar" -> <<"b", "a", "r">>
      [] s = "baz" -> <<"b", "a", "z">>
      [] s = "oof" -> <<"o", "o", "f">>
      [] s = "afff" -> <<"a", "f", "f", "f">>
      [] s = "afffgggg" -> <<"a", "f", "f", "f", "g", "g", "g", "g">>
      [] s = "FOO" -> <<"F", "O", "O">>
      [] s = "U+65E5U+672C" -> <<"U+65E5", "U+672C">>
      [] s = "s/a_b" -> <<"s", "/", "a", "_", "b">>
      [] s = "s/axb" -> <<"s", "/", "a", "x", "b">>
      [] s = "a_b" -> <<"a", "_", "b">>
      [] s = "s\\axb" -> <<"s", "\\", "a", "x", "b">>
      [] s = "xb" -> <<"x", "b">>
      [] s = "c" -> <<"c">>
      [] s = "t" -> <<"t">>
      [] s = "u" -> <<"u">>
      [] s = "v" -> <<"v">>
      [] s = "w" -> <<"w">>
      [] s = "x" -> <<"x">>
      [] s = "y" -> <<"y">>
      [] s = "zz" -> <<"z", "z">>
      [] s = "a.py" -> <<"a", ".", "p", "y">>
      [] s = "b.py" -> <<"b", ".", "p", "y">>
      [] s = "c.py" -> <<"c", ".", "p", "y">>

\* None / Some(x) of an Option
None == <<>>
Some(x) == <<x>>

\* char::to_lowercase on the characters used
Lower(ch) ==
    CASE ch = "A" -> "a" [] ch = "B" -> "b" [] ch = "F" -> "f"
      [] ch = "O" -> "o" [] OTHER -> ch

\* str::to_lowercase
to_lowercase(s) == [i \in DOMAIN s |-> Lower(s[i])]

\* the length in bytes of the UTF-8 encoding of a character
Utf8Len(ch) == IF ch \in {"U+65E5", "U+672C"} THEN 3 ELSE 1

\* str::len(): bytes, not characters
RECURSIVE ByteLen(_)
ByteLen(s) == IF s = <<>> THEN 0 ELSE Utf8Len(Head(s)) + ByteLen(Tail(s))

\* &s[..n]: the characters that end at byte n exactly; None where byte n is
\* not a character boundary (the slice panics)
RECURSIVE SliceTo(_, _)
SliceTo(s, n) ==
    IF n = 0 THEN Some(<<>>)
    ELSE IF s = <<>> \/ Utf8Len(Head(s)) > n THEN None
    ELSE LET rest == SliceTo(Tail(s), n - Utf8Len(Head(s)))
         IN  IF rest = None THEN None ELSE Some(<<Head(s)>> \o rest[1])

\* file_path.replace("\\", "/")
ForwardSlashes(s) == [i \in DOMAIN s |-> IF s[i] = "\\" THEN "/" ELSE s[i]]

\* SQLite's LIKE: % matches any run of characters, _ any one character,
\* any other character itself, ASCII letters without regard to case
RECURSIVE Like(_, _)
Like(pat, s) ==
    IF pat = <<>> THEN s = <<>>
    ELSE IF Head(pat) = "%"
    THEN Like(Tail(pat), s) \/ (s # <<>> /\ Like(pat, Tail(s)))
    ELSE /\ s # <<>>
         /\ Head(pat) = "_" \/ Lower(Head(pat)) = Lower(Head(s))
         /\ Like(Tail(pat), Tail(s))

Min3(x, y, z) ==
    IF x <= y /\ x <= z THEN x ELSE IF y <= z THEN y ELSE z

\* one row of the edit-distance table: acc holds the entries already
\* computed for the character ch of a, prev is the row of the character
\* before it
RECURSIVE LevRow(_, _, _, _)
LevRow(prev, ch, b, acc) ==
    IF Len(acc) = Len(b) + 1 THEN acc
    ELSE LET j == Len(acc)
             cost == IF b[j] = ch THEN 0 ELSE 1
         IN  LevRow(prev, ch, b,
                    Append(acc, Min3(prev[j + 1] + 1, acc[j] + 1, prev[j] + cost)))

RECURSIVE LevRows(_, _, _)
LevRows(a, b, prev) ==
    IF a = <<>> THEN prev[Len(prev)]
    ELSE LevRows(Tail(a), b, LevRow(prev, Head(a), b, <<prev[1] + 1>>))

\* strsim::levenshtein: insertions, deletions and substitutions of characters
levenshtein(a, b) == LevRows(a, b, [j \in 1..(Len(b) + 1) |-> j - 1])

\* the first n elements of a sequence (LIMIT n, Vec::truncate(n))
Truncate(s, n) == SubSeq(s, 1, IF Len(s) < n THEN Len(s) ELSE n)

\* a set of integers as an ascending sequence
RECURSIVE Ascending(_)
Ascending(ids) ==
    IF ids = {} THEN <<>>
    ELSE LET first == CHOOSE i \in ids : \A j \in ids : i <= j
         IN  <<first>> \o Ascending(ids \ {first})

Reverse(s) == [i \in DOMAIN s |-> s[Len(s) + 1 - i]]

\* A SELECT without ORDER BY promises no order: the rows come by ascending
\* or by descending row id.
ScanOrders == {"ascending", "descending"}

ScanIds(ids, order) ==
    IF order = "ascending" THEN Ascending(ids) ELSE Reverse(Ascending(ids))

\* FROM symbols JOIN files ON symbols.file_id = files.file_id, as Nodes
Node(s) ==
    [id |-> s.canonical_id, name |-> s.name,
     qualified_name |-> s.qualified_name, file_path |-> s.file,
     line_start |-> s.line_start, line_end |-> s.line_end,
     node_type |-> s.symbol_type]

SymbolsJoinFiles(d, order) ==
    LET joined == {s \in d.symbols : s.file \in DOMAIN d.files}
        ids == ScanIds({s.symbol_id : s \in joined}, order)
    IN  [i \in DOMAIN ids |-> Node(CHOOSE s \in joined : s.symbol_id = ids[i])]

\* let max_candidates = 5
max_candidates == 5

\* the distance bound handed to the Levenshtein layer
max_distance == 3

\* WHERE name = ?1 LIMIT 1
exact_match(nodes, query) ==
    Truncate(SelectSeq(nodes, LAMBDA n : n.name = query), 1)

\* WHERE name LIKE 'Q%' OR name LIKE '%Q' LIMIT ?3
prefix_suffix_match_multi(nodes, query, limit) ==
    Truncate(SelectSeq(nodes, LAMBDA n :
                        \/ Like(Chars(query) \o <<"%">>, Chars(n.name))
                        \/ Like(<<"%">> \o Chars(query), Chars(n.name))),
             limit)

\* WHERE name LIKE '%Q%' LIMIT ?2
substring_match_multi(nodes, query, limit) ==
    Truncate(SelectSeq(nodes, LAMBDA n :
                        Like(<<"%">> \o Chars(query) \o <<"%">>, Chars(n.name))),
             limit)

\* matches.sort_by_key(|(_, d)| *d): a stable sort
RECURSIVE SortByDistance(_, _, _)
SortByDistance(matches, d, max_dist) ==
    IF d > max_dist THEN <<>>
    ELSE SelectSeq(matches, LAMBDA m : m.dist = d)
            \o SortByDistance(matches, d + 1, max_dist)

\* mutant of levenshtein_match_multi: the matches are not sorted
levenshtein_match_multi_Unsorted(nodes, query, max_dist, limit) ==
    LET query_lower == to_lowercase(Chars(query))
        all == [i \in DOMAIN nodes |->
                   [node |-> nodes[i],
                    dist |-> levenshtein(query_lower,
                                         to_lowercase(Chars(nodes[i].name)))]]
    IN  Truncate(SelectSeq(all, LAMBDA m : m.dist <= max_dist), limit)

levenshtein_match_multi(nodes, query, max_dist, limit) ==
    LET query_lower == to_lowercase(Chars(query))
        all == [i \in DOMAIN nodes |->
                   [node |-> nodes[i],
                    dist |-> levenshtein(query_lower,
                                         to_lowercase(Chars(nodes[i].name)))]]
        matches == SelectSeq(all, LAMBDA m : m.dist <= max_dist)
    IN  Truncate(SortByDistance(matches, 0, max_dist), limit)

\* if query.len() < 4 { return vec![] }; let stem = &query[..4];
\* WHERE name LIKE 'stem%' LIMIT ?2.  The slice panics where byte 4 is not a
\* character boundary.
stem_match_multi(nodes, query, limit) ==
    IF ByteLen(Chars(query)) < 4 THEN [panic |-> FALSE, attempted |-> FALSE, nodes |-> <<>>]
    ELSE LET stem == SliceTo(Chars(query), 4)
         IN  IF stem = None
             THEN [panic |-> TRUE, attempted |-> TRUE, nodes |-> <<>>]
             ELSE [panic |-> FALSE, attempted |-> TRUE,
                   nodes |-> Truncate(SelectSeq(nodes,
                                LAMBDA n : Like(stem[1] \o <<"%">>, Chars(n.name))),
                                limit)]

\* the CandidateMatch values pushed for the nodes of one layer; a score is
\* written in hundredths
Candidates(nodes, match_type, score) ==
    [i \in DOMAIN nodes |->
        [node |-> nodes[i], match_type |-> match_type, score |-> score]]

\* score = 1.0 - (dist as f32 / 4.0), match_type "levenshtein_d{dist}"
LevCandidates(matches) ==
    [i \in DOMAIN matches |->
        [node |-> matches[i].node,
         match_type |-> <<"levenshtein_d", matches[i].dist>>,
         score |-> 100 - 25 * matches[i].dist]]

\* progressive_search_multi: (best, candidates, success), with the layers
\* that were evaluated and whether the stem slice panicked
progressive_search_multi(nodes, query) ==
    LET exact == exact_match(nodes, query)
        prefix == Candidates(prefix_suffix_match_multi(nodes, query, max_candidates),
                             "prefix_suffix", 90)
        substring == Candidates(substring_match_multi(nodes, query, max_candidates),
                                "substring", 80)
        lev == LevCandidates(levenshtein_match_multi(nodes, query, max_distance,
                                                     max_candidates))
        stem_result == stem_match_multi(nodes, query, max_candidates)
        stem == Candidates(stem_result.nodes, "stem", 50)
        result(best, mt, cands, layers) ==
            [panic |-> FALSE, best |-> best, match_type |-> mt,
             candidates |-> cands, success |-> best # None, layers |-> layers]
    IN  IF exact # None
        THEN result(Some(exact[1]), Some("exact"), <<>>, <<"exact">>)
        ELSE IF prefix # <<>>
        THEN result(Some(prefix[1].node), Some("prefix_suffix"), prefix,
                    <<"exact", "prefix_suffix">>)
        ELSE IF substring # <<>>
        THEN result(Some(substring[1].node), Some("substring"), substring,
                    <<"exact", "prefix_suffix", "substring">>)
        ELSE IF lev # <<>>
        THEN result(Some(lev[1].node), Some("levenshtein"), lev,
                    <<"exact", "prefix_suffix", "substring", "levenshtein">>)
        ELSE IF stem_result.panic
        THEN [panic |-> TRUE,
              layers |-> <<"exact", "prefix_suffix", "substring", "levenshtein",
                           "stem">>]
        ELSE IF stem # <<>>
        THEN result(Some(stem[1].node), Some("stem"), stem,
                    <<"exact", "prefix_suffix", "substring", "levenshtein", "stem">>)
        ELSE result(None, None, <<>>,
                    IF stem_result.attempted
                    THEN <<"exact", "prefix_suffix", "substring", "levenshtein",
                           "stem">>
                    ELSE <<"exact", "prefix_suffix", "substring", "levenshtein">>)

\* ---- run_query
\* WHERE file_path LIKE '%<file>' AND line_start <= ?2 AND line_end >= ?2
\* ORDER BY (line_end - line_start) ASC LIMIT 1
LocateByPosition(nodes, file, line) ==
    LET file_pattern == <<"%">> \o ForwardSlashes(Chars(file))
        rows == SelectSeq(nodes, LAMBDA n :
                    /\ Like(file_pattern, Chars(n.file_path))
                    /\ n.line_start <= line
                    /\ n.line_end >= line)
        smallest == SelectSeq(rows, LAMBDA n :
                        \A i \in DOMAIN rows :
                            n.line_end - n.line_start
                                <= rows[i].line_end - rows[i].line_start)
    IN  Truncate(smallest, 1)

\* mutant of Callers: every call with the callee's name counts
Callers_ByName(d, order, sym) ==
    LET hits == {c \in d.calls :
                    /\ c.callee_name = sym.name
                    /\ \E s \in d.symbols :
                          s.symbol_id = c.caller_id /\ s.file \in DOMAIN d.files}
        ids == ScanIds({c.call_id : c \in hits}, order)
        caller(i) == CHOOSE s \in d.symbols :
                        \E c \in hits : c.call_id = ids[i] /\ s.symbol_id = c.caller_id
    IN  [i \in DOMAIN ids |-> [node |-> Node(caller(i)), call_type |-> "direct"]]

\* FROM calls c JOIN symbols s ON c.caller_id = s.symbol_id JOIN files f ...
\* WHERE c.callee_id = ?1 OR (c.callee_id IS NULL AND c.callee_name = ?2)
Callers(d, order, sym) ==
    LET hits == {c \in d.calls :
                    /\ \/ c.callee_id = sym.id
                       \/ c.callee_id = NULL /\ c.callee_name = sym.name
                    /\ \E s \in d.symbols :
                          s.symbol_id = c.caller_id /\ s.file \in DOMAIN d.files}
        ids == ScanIds({c.call_id : c \in hits}, order)
        caller(i) == CHOOSE s \in d.symbols :
                        \E c \in hits : c.call_id = ids[i] /\ s.symbol_id = c.caller_id
    IN  [i \in DOMAIN ids |-> [node |-> Node(caller(i)), call_type |-> "direct"]]

\* What run_query writes to --output; [status |-> "panic"] when the process
\* dies, NoOutput when there is no --output.
run_query(d, order, req) ==
    LET nodes == SymbolsJoinFiles(d, order)
        by_position == req.file # None /\ req.line # None
        search == progressive_search_multi(nodes, req.query[1])
        found == IF by_position
                 THEN LocateByPosition(nodes, req.file[1], req.line[1])
                 ELSE IF req.query # None THEN search.best
                 ELSE None
    IN  IF ~by_position /\ req.query # None /\ search.panic
        THEN [status |-> "panic", layers |-> search.layers]
        ELSE IF ~req.output THEN NoOutput
        ELSE [status |-> "success",
              query |-> req.query,
              found_symbol |-> found,
              match_type |-> IF ~by_position /\ req.query # None
                             THEN search.match_type ELSE None,
              candidates |-> IF ~by_position /\ req.query # None
                             THEN search.candidates ELSE <<>>,
              related_nodes |-> IF found = None THEN <<>>
                                ELSE Callers(d, order, found[1]),
              layers |-> IF ~by_position /\ req.query # None
                         THEN search.layers ELSE <<>>]

\* ---- run_analyze
\* WHERE name = ?1 LIMIT 1, or else
\* WHERE name LIKE '%Q%' OR qualified_name LIKE '%Q%' LIMIT 1
ResolveTarget(nodes, query) ==
    LET exact == exact_match(nodes, query)
        pattern == <<"%">> \o Chars(query) \o <<"%">>
    IN  IF exact # None THEN exact
        ELSE Truncate(SelectSeq(nodes, LAMBDA n :
                         \/ Like(pattern, Chars(n.name))
                         \/ Like(pattern, Chars(n.qualified_name))), 1)

\* name_to_ids[name]: SELECT canonical_id, name FROM symbols
NameToIds(d, order, name) ==
    LET rows == {s \in d.symbols : s.name = name}
        ids == ScanIds({s.symbol_id : s \in rows}, order)
    IN  [i \in DOMAIN ids |->
            (CHOOSE s \in rows : s.symbol_id = ids[i]).canonical_id]

\* mutant of EdgesOfCall: callee_id is ignored, every call is expanded by name
EdgesOfCall_ByNameOnly(d, order, c) ==
    LET callers == {s \in d.symbols : s.symbol_id = c.caller_id}
        caller == (CHOOSE s \in callers : TRUE).canonical_id
        callees == NameToIds(d, order, c.callee_name)
    IN  IF callers = {} THEN <<>>
        ELSE [i \in DOMAIN callees |-> <<caller, callees[i]>>]

\* the (caller, callee) pairs pushed for one row of
\* SELECT s.canonical_id, c.callee_id, c.callee_name
\* FROM calls c JOIN symbols s ON c.caller_id = s.symbol_id
EdgesOfCall(d, order, c) ==
    LET callers == {s \in d.symbols : s.symbol_id = c.caller_id}
        caller == (CHOOSE s \in callers : TRUE).canonical_id
        callees == IF c.callee_id # NULL THEN <<c.callee_id>>
                   ELSE NameToIds(d, order, c.callee_name)
    IN  IF callers = {} THEN <<>>
        ELSE [i \in DOMAIN callees |-> <<caller, callees[i]>>]

\* every pair pushed, in the order of the pushes
GraphEdges(d, order) ==
    LET ids == ScanIds({c.call_id : c \in d.calls}, order)
    IN  Flatten([i \in DOMAIN ids |->
                    EdgesOfCall(d, order, CHOOSE c \in d.calls : c.call_id = ids[i])])

\* primary_graph.get(&id): adjacency for forward, reverse_adjacency otherwise
Neighbours(edges, direction, id) ==
    IF direction = "forward"
    THEN LET out == SelectSeq(edges, LAMBDA e : e[1] = id)
         IN  [i \in DOMAIN out |-> out[i][2]]
    ELSE LET inc == SelectSeq(edges, LAMBDA e : e[2] = id)
         IN  [i \in DOMAIN inc |-> inc[i][1]]

\* get_node_by_id: Err(QueryReturnedNoRows) is None
get_node_by_id(nodes, id) ==
    Truncate(SelectSeq(nodes, LAMBDA n : n.id = id), 1)

\* mutant of PopQueue: the queue is served from its front
PopQueue_Front(queue) == [item |-> Head(queue), rest |-> Tail(queue)]

\* queue.pop(): Vec::pop takes the last element
PopQueue(queue) ==
    [item |-> queue[Len(queue)], rest |-> SubSeq(queue, 1, Len(queue) - 1)]

\* for cid in nodes { if !visited.contains(cid) { ... } }
RECURSIVE VisitAll(_, _, _, _)
VisitAll(nodes, cids, depth, st) ==
    IF cids = <<>> \/ st.fatal THEN st
    ELSE LET cid == Head(cids)
         IN  IF cid \in st.visited THEN VisitAll(nodes, Tail(cids), depth, st)
             ELSE IF get_node_by_id(nodes, cid) = None
             THEN [st EXCEPT !.fatal = TRUE]
             ELSE VisitAll(nodes, Tail(cids), depth,
                    [st EXCEPT
                        !.visited = @ \cup {cid},
                        !.indirect = Append(@, [node |-> get_node_by_id(nodes, cid)[1],
                                                call_type |-> "indirect"]),
                        !.queue = Append(@, <<cid, depth + 1>>)])

\* while let Some((curr, depth)) = queue.pop() { if depth >= 3 { continue } ... }
RECURSIVE Drain(_, _, _, _)
Drain(nodes, edges, direction, st) ==
    IF st.queue = <<>> \/ st.fatal THEN st
    ELSE LET popped == PopQueue(st.queue)
             curr == popped.item[1]
             depth == popped.item[2]
             st1 == [st EXCEPT !.queue = popped.rest]
         IN  IF depth >= 3 THEN Drain(nodes, edges, direction, st1)
             ELSE Drain(nodes, edges, direction,
                        VisitAll(nodes, Neighbours(edges, direction, curr), depth, st1))

\* total_affected <= 3 low, <= 10 medium, else high
RiskLevel(total_affected) ==
    IF total_affected <= 3 THEN "low"
    ELSE IF total_affected <= 10 THEN "medium"
    ELSE "high"

\* ---- the complexity score (scores are written in hundredths)
num_walks == 1000

walk_length == 10

\* the ids within S that a walk staying in S reaches from `from` in at most
\* k further steps on the forward graph
\* One walk from curr with k counts left, as the sequence of the vertices it
\* counts: it counts curr, then stops (rand::random() > damping, a vertex
\* without neighbours, or the last count) or moves to a neighbour
RECURSIVE Walks(_, _, _)
Walks(edges, curr, k) ==
    IF k = 0 THEN {}
    ELSE {<<curr>>} \cup
         {<<curr>> \o w :
             w \in UNION {Walks(edges, n, k - 1) :
                             n \in Range(Neighbours(edges, "forward", curr))}}

\* mutant of WalkReach: the walks have no length limit
RECURSIVE WalkReach_Unlimited(_, _, _, _)
WalkReach_Unlimited(edges, S, from, k) ==
    LET next == from \cup
                 (S \cap UNION {Range(Neighbours(edges, "forward", v)) : v \in from})
    IN  IF next = from THEN from
        ELSE WalkReach_Unlimited(edges, S, next, k)

RECURSIVE WalkReach(_, _, _, _)
WalkReach(edges, S, from, k) ==
    LET next == from \cup
                 (S \cap UNION {Range(Neighbours(edges, "forward", v)) : v \in from})
    IN  IF k = 0 \/ next = from THEN from
        ELSE WalkReach(edges, S, next, k - 1)

\* the key sets that walk_visits can end with: each walk starts at the
\* target, visits at most walk_length vertices, and stops early whenever
\* rand::random() > damping or the vertex has no outgoing edge; one walk per
\* visited id is enough to visit them all
WalkOutcomes(edges, target_id) ==
    LET ids == {target_id} \cup {e[2] : e \in Range(edges)}
    IN  {S \in SUBSET ids :
            /\ target_id \in S
            /\ Cardinality(S) <= num_walks
            /\ WalkReach(edges, S, {target_id}, walk_length - 1) = S}

\* the score without the cap at 100
ComplexityScore_Uncapped(coverage, out_degree, in_degree) ==
    50 * coverage + 200 * out_degree + 100 * in_degree

\* coverage * 0.5 + out_degree * 2.0 + in_degree * 1.0, at most 100.0
ComplexityScore(coverage, out_degree, in_degree) ==
    LET complexity_score == 50 * coverage + 200 * out_degree + 100 * in_degree
    IN  IF complexity_score > 10000 THEN 10000 ELSE complexity_score

ComplexityLevel(normalized_score) ==
    IF normalized_score < 2000 THEN "Simple"
    ELSE IF normalized_score < 5000 THEN "Medium"
    ELSE IF normalized_score < 8000 THEN "High"
    ELSE "Extreme"

\* the outcomes of the random walks of one analyze process
AnalyzeWalks(d, order, req) ==
    LET target == ResolveTarget(SymbolsJoinFiles(d, order), req.query[1])
    IN  IF req.query = None \/ target = None THEN {{}}
        ELSE WalkOutcomes(GraphEdges(d, order), target[1].id)

\* What run_analyze writes to --output, walk_visits being the ids its random
\* walks visited; [status |-> "panic"] and [status |-> "fatal"] when the
\* process dies of a panic or returns an error.
run_analyze(d, order, req, walk_visits) ==
    LET nodes == SymbolsJoinFiles(d, order)
        target == ResolveTarget(nodes, req.query[1])
        edges == GraphEdges(d, order)
        direction == IF req.direction = "forward" THEN "forward" ELSE "backward"
        direct_ids == Neighbours(edges, direction, target[1].id)
        direct == [i \in DOMAIN direct_ids |->
                      [node |-> get_node_by_id(nodes, direct_ids[i])[1],
                       call_type |-> "direct"]]
        st == Drain(nodes, edges, direction,
                    [queue |-> [i \in DOMAIN direct_ids |-> <<direct_ids[i], 1>>],
                     visited |-> {target[1].id} \cup Range(direct_ids),
                     indirect |-> <<>>,
                     fatal |-> FALSE])
        normalized_score ==
            ComplexityScore(Cardinality(walk_visits),
                            Len(Neighbours(edges, "forward", target[1].id)),
                            Len(Neighbours(edges, "backward", target[1].id)))
    IN  IF req.query = None THEN [status |-> "panic"]
        ELSE IF target = None
        THEN IF req.output
             THEN [status |-> "error", message |-> "Symbol not found"]
             ELSE NoOutput
        ELSE IF \E i \in DOMAIN direct_ids :
                    get_node_by_id(nodes, direct_ids[i]) = None
        THEN [status |-> "fatal"]
        ELSE IF st.fatal THEN [status |-> "fatal"]
        ELSE IF ~req.output THEN NoOutput
        ELSE [status |-> "success",
              node_id |-> target[1].id,
              walk_visits |-> walk_visits,
              complexity_score |-> normalized_score,
              complexity_level |-> ComplexityLevel(normalized_score),
              affected_nodes |-> Len(direct) + Len(st.indirect),
              direct_callers |-> direct,
              indirect_callers |-> st.indirect,
              risk_level |-> RiskLevel(Len(direct) + Len(st.indirect))]

\* ---- run_snapshot
NoFile == [exists |-> FALSE]

NoSnapshots == [name \in {"base", "target"} |-> NoFile]

\* a Snapshot file: symbols maps a canonical id to its SnapshotSymbol (the
\* timestamp, which run_diff never reads, and the signature, always None,
\* are left out)
SnapshotFile(symbols) == [exists |-> TRUE, symbols |-> symbols]

\* the callee names pushed to the entry of key, in the order of the scan of
\* calls JOIN symbols ON c.caller_id = s.symbol_id
SnapshotCalls(d, order, key) ==
    LET ids == ScanIds({c.call_id : c \in d.calls}, order)
        row(i) == CHOOSE c \in d.calls : c.call_id = ids[i]
        mine == SelectSeq([i \in DOMAIN ids |-> row(i)], LAMBDA c :
                    \E s \in d.symbols :
                        s.symbol_id = c.caller_id /\ s.canonical_id = key)
    IN  [i \in DOMAIN mine |-> mine[i].callee_name]

\* symbols_map.insert(id, sym) for each row: the last row of a canonical id
\* stays
run_snapshot(d, order) ==
    LET ids == ScanIds({s.symbol_id : s \in d.symbols}, order)
        row(i) == CHOOSE s \in d.symbols : s.symbol_id = ids[i]
        last(key) == row(CHOOSE i \in DOMAIN ids :
                            /\ row(i).canonical_id = key
                            /\ \A j \in DOMAIN ids :
                                  row(j).canonical_id = key => j <= i)
    IN  SnapshotFile([key \in {s.canonical_id : s \in d.symbols} |->
            [name |-> last(key).name,
             qualified_name |-> last(key).qualified_name,
             file_path |-> last(key).file,
             symbol_type |-> last(key).symbol_type,
             line_start |-> last(key).line_start,
             calls |-> SnapshotCalls(d, order, key)]])

\* ---- run_diff
\* the orders in which a HashMap or a HashSet can be iterated
SeqsOf(S) == {s \in [1..Cardinality(S) -> S] : Range(s) = S}

\* target_calls.difference(&base_calls), base_calls.difference(&target_calls)
new_calls(base_sym, target_sym) == Range(target_sym.calls) \ Range(base_sym.calls)

lost_calls(base_sym, target_sym) == Range(base_sym.calls) \ Range(target_sym.calls)

\* the same with the symbol types never compared
Diffs_TypeIgnored(base_sym, target_sym) ==
    LET moved == IF base_sym.file_path # target_sym.file_path
                 THEN << <<"Moved from", base_sym.file_path, "to", target_sym.file_path>> >>
                 ELSE <<>>
    IN  {moved
            \o (IF added = <<>> THEN <<>> ELSE << <<"Added calls", added>> >>)
            \o (IF removed = <<>> THEN <<>> ELSE << <<"Removed calls", removed>> >>) :
                added \in SeqsOf(new_calls(base_sym, target_sym)),
                removed \in SeqsOf(lost_calls(base_sym, target_sym))}

\* `diffs` for one key present in both snapshots, one value per order in
\* which the two differences can be listed (the message is kept as the
\* parts that join("; ") puts together)
Diffs(base_sym, target_sym) ==
    LET moved == IF base_sym.file_path # target_sym.file_path
                 THEN << <<"Moved from", base_sym.file_path, "to", target_sym.file_path>> >>
                 ELSE <<>>
        typed == IF base_sym.symbol_type # target_sym.symbol_type
                 THEN << <<"Type changed", base_sym.symbol_type, target_sym.symbol_type>> >>
                 ELSE <<>>
    IN  {moved \o typed
            \o (IF added = <<>> THEN <<>> ELSE << <<"Added calls", added>> >>)
            \o (IF removed = <<>> THEN <<>> ELSE << <<"Removed calls", removed>> >>) :
                added \in SeqsOf(new_calls(base_sym, target_sym)),
                removed \in SeqsOf(lost_calls(base_sym, target_sym))}

\* every key of base
RemovedKeys_All(base, target) == DOMAIN base

\* the swap of the two snapshots
RemovedKeys_Swapped(base, target) == DOMAIN target \ DOMAIN base

\* the keys of base that target lacks
RemovedKeys(base, target) == DOMAIN base \ DOMAIN target

AddedKeys(base, target) == DOMAIN target \ DOMAIN base

\* the keys of both with a non-empty `diffs`
ModifiedKeys(base, target) ==
    {k \in DOMAIN target \cap DOMAIN base : Diffs(base[k], target[k]) # {<<>>}}

\* the DiffResults that run_diff can write for two snapshot files
run_diff(base_file, target_file) ==
    IF ~base_file.exists \/ ~target_file.exists THEN {[status |-> "fatal"]}
    ELSE LET base == base_file.symbols
             target == target_file.symbols
             modified_keys == ModifiedKeys(base, target)
             detail(k) == {[change_type |-> "modified", diff_msg |-> msg] :
                              msg \in Diffs(base[k], target[k])}
         IN  {[status |-> "success", added |-> added, removed |-> removed,
               modified |-> modified, details |-> details] :
                  added \in SeqsOf(AddedKeys(base, target)),
                  removed \in SeqsOf(RemovedKeys(base, target)),
                  modified \in SeqsOf(modified_keys),
                  details \in {f \in [modified_keys ->
                                        UNION {detail(k) : k \in modified_keys}] :
                                  \A k \in modified_keys : f[k] \in detail(k)}}

\* ---- the snapshot files handed to run_diff
FooKey == <<"func", "a.py", "foo">>

\* the entries a snapshot file can have for foo, none being one of them
FooEntries ==
    [name : {"foo"}, qualified_name : {"foo"}, file_path : {"a.py", "b.py"},
     symbol_type : {"function", "class"}, line_start : {1, 2},
     calls : {<<>>, <<"bar">>, <<"bar", "baz">>, <<"baz", "bar", "bar">>}]

OtherEntry(name) ==
    [name |-> name, qualified_name |-> name, file_path |-> "a.py",
     symbol_type |-> "function", line_start |-> 5, calls |-> <<>>]

SnapshotPool ==
    {SnapshotFile([k \in ({FooKey} \cap foo_keys) \cup others |->
                      IF k = FooKey THEN foo ELSE OtherEntry(k[3])]) :
        foo \in FooEntries, foo_keys \in SUBSET {FooKey},
        others \in SUBSET {<<"func", "a.py", "bar">>, <<"func", "a.py", "baz">>}}

SnapshotPairs == [{"base", "target"} -> SnapshotPool]

\* ---- the databases and command lines of the query and analyze processes
FileRow(p) ==
    [file_hash |-> calculate_hash(p), file_size |-> 1, file_mtime |-> 1,
     language |-> "py", index_level |-> "symbol", indexed_at |-> 1]

\* a symbols row of a top-level function: qualified_name is the name
FunctionRow(id, file, name, first, last) ==
    [symbol_id |-> id, file |-> file, name |-> name, qualified_name |-> name,
     canonical_id |-> CanonicalId(file, [name |-> name, symbol_type |-> "function"]),
     symbol_type |-> "function", line_start |-> first, line_end |-> last]

CallRow(id, caller, name, callee) ==
    [call_id |-> id, caller_id |-> caller, callee_name |-> name,
     call_line |-> 1, callee_id |-> callee]

QueryFiles == {"s/a_b", "s/axb"}

QuerySymbolPool ==
    {FunctionRow(1, "s/a_b", "foo", 1, 9),
     FunctionRow(2, "s/a_b", "fob", 2, 3),
     FunctionRow(3, "s/a_b", "fo", 5, 5),
     FunctionRow(4, "s/axb", "bar", 1, 4),
     FunctionRow(5, "s/axb", "foo", 2, 3),
     FunctionRow(6, "s/axb", "oof", 6, 7),
     FunctionRow(7, "s/axb", "afff", 9, 9)}

QueryCallPool ==
    {CallRow(1, 4, "foo", <<"func", "s/a_b", "foo">>),
     CallRow(2, 2, "foo", NULL),
     CallRow(3, 6, "foo", <<"func", "s/axb", "foo">>)}

\* the indexed projects the query processes run on: any of the symbols, any
\* of the calls whose caller is among them
QueryDbs ==
    {[files |-> [p \in QueryFiles |-> FileRow(p)], symbols |-> S, calls |-> C,
      seq_symbols |-> 7, seq_calls |-> 3] :
        S \in SUBSET QuerySymbolPool,
        C \in SUBSET QueryCallPool}

ConsistentDbs(dbs) ==
    {d \in dbs : \A c \in d.calls : \E s \in d.symbols : s.symbol_id = c.caller_id}

\* --mode query, with --query, or --file and --line, or both, or neither
QueryRequests ==
    [mode : {"query"},
     query : {Some(q) : q \in {"foo", "fo", "o", "baz", "afffgggg", "FOO",
                               "U+65E5U+672C"}},
     file : {None}, line : {None}, direction : {"backward"}, output : {TRUE}]
    \cup
    [mode : {"query"}, query : {None, Some("bar")},
     file : {Some(f) : f \in {"a_b", "s\\axb", "xb", "c"}},
     line : {Some(2), Some(8)}, direction : {"backward"}, output : {TRUE}]
    \cup
    [mode : {"query"}, query : {None, Some("bar")},
     file : {None, Some("xb")}, line : {None}, direction : {"backward"},
     output : {TRUE}]

\* --mode analyze --query Q --direction D
AnalyzeRequests ==
    [mode : {"analyze"}, query : {Some("foo"), Some("t"), Some("y"), Some("zz")},
     file : {None}, line : {None}, direction : {"backward", "forward"},
     output : {TRUE}]

\* a call graph on six functions of one file: t calls u and v, v calls w,
\* w and u call x, x calls y (found by name), t calls itself, y calls t
AnalyzeSymbols ==
    {FunctionRow(1, "s/a_b", "t", 1, 1), FunctionRow(2, "s/a_b", "u", 2, 2),
     FunctionRow(3, "s/a_b", "v", 3, 3), FunctionRow(4, "s/a_b", "w", 4, 4),
     FunctionRow(5, "s/a_b", "x", 5, 5), FunctionRow(6, "s/a_b", "y", 6, 6)}

AnalyzeCallPool ==
    {CallRow(1, 1, "u", <<"func", "s/a_b", "u">>),
     CallRow(2, 1, "v", <<"func", "s/a_b", "v">>),
     CallRow(3, 3, "w", <<"func", "s/a_b", "w">>),
     CallRow(4, 4, "x", <<"func", "s/a_b", "x">>),
     CallRow(5, 2, "x", <<"func", "s/a_b", "x">>),
     CallRow(6, 5, "y", NULL),
     CallRow(7, 1, "t", <<"func", "s/a_b", "t">>),
     CallRow(8, 6, "t", <<"func", "s/a_b", "t">>)}

\* t calls u from n_out places and v calls t from n_in places
StarDb(n_out, n_in) ==
    [files |-> [p \in {"s/a_b"} |-> FileRow(p)], symbols |-> AnalyzeSymbols,
     calls |-> {[CallRow(i, 1, "u", <<"func", "s/a_b", "u">>)
                    EXCEPT !.call_line = i] : i \in 1..n_out}
               \cup {[CallRow(n_out + i, 3, "t", <<"func", "s/a_b", "t">>)
                    EXCEPT !.call_line = i] : i \in 1..n_in},
     seq_symbols |-> 6, seq_calls |-> n_out + n_in]

ScoreDbs == {StarDb(n_out, n_in) : n_out \in {0, 9, 24, 39, 49, 50}, n_in \in {1, 2}}

\* a chain of twelve functions, six in each of two files: each calls the
\* next one, the last of s/a_b calls the first of s/axb, and the last of
\* s/axb calls t by name only, a name that both files define
ChainNames == <<"t", "u", "v", "w", "x", "y">>

ChainFile(i) == IF i <= Len(ChainNames) THEN "s/a_b" ELSE "s/axb"

ChainName(i) == ChainNames[((i - 1) % Len(ChainNames)) + 1]

ChainDb ==
    [files |-> [p \in {"s/a_b", "s/axb"} |-> FileRow(p)],
     symbols |-> {FunctionRow(i, ChainFile(i), ChainName(i), i, i) :
                     i \in 1..(2 * Len(ChainNames))},
     calls |-> {CallRow(i, i, ChainName(i + 1),
                        <<"func", ChainFile(i + 1), ChainName(i + 1)>>) :
                     i \in 1..(2 * Len(ChainNames) - 1)}
               \cup {CallRow(2 * Len(ChainNames), 2 * Len(ChainNames),
                              ChainName(1), NULL)},
     seq_symbols |-> 2 * Len(ChainNames),
     seq_calls |-> 2 * Len(ChainNames)]

AnalyzeDbs ==
    {[files |-> [p \in {"s/a_b"} |-> FileRow(p)], symbols |-> AnalyzeSymbols,
      calls |-> C, seq_symbols |-> 6, seq_calls |-> 8] :
        C \in SUBSET AnalyzeCallPool}

\* ------------------------------------------------------------------- Init
Trees ==
    {t \in [Paths -> {Absent} \cup [content : Contents, mtime : {1}]] :
        \A p \in Paths \ EditablePaths : t[p] = Absent}

\* trees of three files, at most one of them not UTF-8
BootstrapTrees ==
    {t \in [Paths -> [content : Contents, mtime : {1}]] :
        /\ t["a.py"].content \in {"foo_calls_bar", "latin1"}
        /\ t["b.py"].content \in {"bar_only", "foo_only"}
        /\ t["c.py"].content \in {"bar_only"}}

\* the state when no process runs: a tree, and the database that the index
\* runs so far have left
InitFiles(trees, dbs, files) ==
    /\ disk \in trees
    /\ foreign_keys \in BOOLEAN
    /\ committed \in dbs
    /\ db = committed
    /\ pc = "idle"
    /\ runs = 0
    /\ edits = 0
    /\ args = NoArgs
    /\ entries = {}
    /\ db_files = <<>>
    /\ strategy = "none"
    /\ parse_counter = 0
    /\ parsed_counter = 0
    /\ meta_counter = 0
    /\ skipped_counter = 0
    /\ wpc = [p \in Paths |-> "done"]
    /\ chan = <<>>
    /\ processed_count = 0
    /\ changed_in_batch = 0
    /\ summary = NoSummary
    /\ reads = {}
    /\ sent = {}
    /\ start_db = EmptyDb
    /\ dirty = TRUE
    /\ unchanged = FALSE
    /\ interrupted = NotInterrupted
    /\ request = NoRequest
    /\ output = NoOutput
    /\ snapshots \in files

InitWith(trees, dbs) == InitFiles(trees, dbs, {NoSnapshots})

InitAt(trees) == InitWith(trees, {EmptyDb})

Init == InitAt(Trees)

NoTree == {[p \in Paths |-> Absent]}

InitQuery == InitWith(NoTree, ConsistentDbs(QueryDbs))

InitAnalyze == InitWith(NoTree, AnalyzeDbs \cup ScoreDbs \cup {ChainDb})

InitBootstrap == InitAt(BootstrapTrees)

\* trees of at most two files for the runs that can be killed
CrashTrees ==
    {t \in [Paths -> {Absent} \cup [content : MoreContents, mtime : {1}]] :
        /\ t["a.py"] = Absent \/ t["a.py"].content \in {"foo_calls_bar", "bar_only"}
        /\ t["b.py"] = Absent
              \/ t["b.py"].content \in {"bar_only", "bar_and_foo_calls_bar", "latin1"}
        /\ t["c.py"] = Absent}

InitCrash == InitAt(CrashTrees)

\* ------------------------------------------------------------ environment
\* What a returned run_indexer leaves in memory is kept, for inspection,
\* until the next event; then only the tree and the database remain.
ProcessGone ==
    /\ args' = NoArgs
    /\ entries' = {}
    /\ db_files' = <<>>
    /\ strategy' = "none"
    /\ parse_counter' = 0
    /\ parsed_counter' = 0
    /\ meta_counter' = 0
    /\ skipped_counter' = 0
    /\ processed_count' = 0
    /\ changed_in_batch' = 0
    /\ summary' = NoSummary
    /\ reads' = {}
    /\ sent' = {}
    /\ start_db' = EmptyDb
    /\ unchanged' = FALSE
    /\ interrupted' = IF interrupted = NotInterrupted THEN NotInterrupted
                      ELSE WasInterrupted

\* An editor writes a file: new content, new mtime, or both.
WriteFile(p, c, m) ==
    /\ pc = "idle"
    /\ edits < MaxEdits
    /\ disk[p] # [content |-> c, mtime |-> m]
    /\ disk' = [disk EXCEPT ![p] = [content |-> c, mtime |-> m]]
    /\ edits' = edits + 1
    /\ dirty' = TRUE
    /\ ProcessGone
    /\ UNCHANGED <<foreign_keys, cliVars, dbVars, pc, runs, wpc, chan>>

DeleteFile(p) ==
    /\ pc = "idle"
    /\ edits < MaxEdits
    /\ Exists(p)
    /\ disk' = [disk EXCEPT ![p] = Absent]
    /\ edits' = edits + 1
    /\ dirty' = TRUE
    /\ ProcessGone
    /\ UNCHANGED <<foreign_keys, cliVars, dbVars, pc, runs, wpc, chan>>

\* --------------------------------------------------- run_indexer: start-up
\* Discovery, the pre-load of the file metadata, strategy selection, the
\* spawn of the producer and the consumer's first transaction.
StartRun(a) ==
    /\ pc = "idle"
    /\ runs < MaxRuns
    /\ runs' = runs + 1
    /\ args' = a
    /\ entries' = {p \in Paths : Exists(p)}
    /\ db_files' = committed.files
    /\ strategy' = SelectStrategy(a.force_full,
                      UseBootstrapStrategy(committed.files,
                          Cardinality({p \in Paths : Exists(p)}),
                          a.huge_threshold))
    /\ parse_counter' = 0
    /\ parsed_counter' = 0
    /\ meta_counter' = 0
    /\ skipped_counter' = 0
    /\ wpc' = [p \in Paths |-> IF Exists(p) THEN "start" ELSE "done"]
    /\ chan' = <<>>
    /\ processed_count' = 0
    /\ changed_in_batch' = 0
    /\ sent' = {}
    /\ reads' = {}
    /\ db' = committed
    /\ pc' = "consume"
    /\ start_db' = committed
    /\ unchanged' = (~dirty /\ interrupted = NotInterrupted)
    /\ interrupted' = IF interrupted.phase = "killed"
                      THEN [interrupted EXCEPT !.phase = "recovering"]
                      ELSE IF interrupted = NotInterrupted THEN NotInterrupted
                      ELSE WasInterrupted
    /\ dirty' = FALSE
    /\ summary' = NoSummary
    /\ UNCHANGED <<treeVars, foreign_keys, cliVars, committed>>

\* ------------------------------------------------------------ the workers
\* mutant of SkipResult: the marker carries the extension as its language
SkipResult_Untagged(p, hash, level) ==
    [file_path |-> p, file_hash |-> hash, file_size |-> file_size(p),
     file_mtime |-> file_mtime(p), language |-> Ext(p), index_level |-> level,
     symbols |-> <<>>, calls |-> <<>>]

SkipResult(p, hash, level) ==
    [file_path |-> p, file_hash |-> hash, file_size |-> file_size(p),
     file_mtime |-> file_mtime(p), language |-> "skip", index_level |-> level,
     symbols |-> <<>>, calls |-> <<>>]

MetaResult(p) ==
    [file_path |-> p, file_hash |-> MetaHash(file_size(p), file_mtime(p)),
     file_size |-> file_size(p), file_mtime |-> file_mtime(p),
     language |-> "meta", index_level |-> "meta",
     symbols |-> <<>>, calls |-> <<>>]

SymbolResult(p) ==
    [file_path |-> p, file_hash |-> calculate_hash(disk[p].content),
     file_size |-> file_size(p), file_mtime |-> file_mtime(p),
     language |-> Ext(p), index_level |-> "symbol",
     symbols |-> ExtractSymbols(disk[p].content),
     calls |-> ExtractCalls(disk[p].content)]

\* mutant of MetadataSkip: the fast path is taken by the meta rows instead
MetadataSkip_MetaLevel(p) ==
    /\ p \in DOMAIN db_files
    /\ db_files[p].index_level = "meta"
    /\ db_files[p].file_size = file_size(p)
    /\ db_files[p].file_mtime = file_mtime(p)

\* mutant of MetadataSkip: the level of the stored row is not tested
MetadataSkip_AnyLevel(p) ==
    /\ p \in DOMAIN db_files
    /\ db_files[p].file_size = file_size(p)
    /\ db_files[p].file_mtime = file_mtime(p)

\* if old.level == "symbol" && old.size == file_size && old.mtime == file_mtime
MetadataSkip(p) ==
    /\ p \in DOMAIN db_files
    /\ db_files[p].index_level = "symbol"
    /\ db_files[p].file_size = file_size(p)
    /\ db_files[p].file_mtime = file_mtime(p)

\* if use_bootstrap_strategy && !force_full
BudgetGate == use_bootstrap_strategy /\ ~args.force_full

\* mutant of OverBudget: off by one
OverBudget_OffByOne(seen) == seen > args.bootstrap_parse_budget

\* if seen >= bootstrap_parse_budget
OverBudget(seen) == seen >= args.bootstrap_parse_budget

\* if old.hash == new_hash
HashSkip(p) ==
    /\ p \in DOMAIN db_files
    /\ db_files[p].file_hash = calculate_hash(disk[p].content)

\* mutant of Send: the result is sent twice
Send_Twice(res) ==
    /\ chan' = Append(Append(chan, res), res)
    /\ sent' = sent \cup {<<res.file_path, res.language>>}

\* tx_chan.send(res)
Send(res) ==
    /\ chan' = Append(chan, res)
    /\ sent' = sent \cup {<<res.file_path, res.language>>}

\* The task of one path up to and including the budget gate: the extension
\* filters, fs::metadata, the metadata skip and parse_counter.fetch_add.
WorkerStart(p) ==
    /\ pc = "consume"
    /\ wpc[p] = "start"
    /\ IF Ext(p) \notin SupportedExts
       THEN /\ wpc' = [wpc EXCEPT ![p] = "done"]
            /\ UNCHANGED <<chan, sent, counterVars>>
       ELSE IF MetadataSkip(p)
       THEN /\ skipped_counter' = skipped_counter + 1
            /\ Send(SkipResult(p, db_files[p].file_hash,
                               db_files[p].index_level))
            /\ wpc' = [wpc EXCEPT ![p] = "done"]
            /\ UNCHANGED <<parse_counter, parsed_counter, meta_counter>>
       ELSE IF BudgetGate
       THEN /\ parse_counter' = parse_counter + 1
            /\ IF OverBudget(parse_counter)
               THEN /\ meta_counter' = meta_counter + 1
                    /\ Send(MetaResult(p))
                    /\ wpc' = [wpc EXCEPT ![p] = "done"]
               ELSE /\ wpc' = [wpc EXCEPT ![p] = "read"]
                    /\ UNCHANGED <<chan, sent, meta_counter>>
            /\ UNCHANGED <<parsed_counter, skipped_counter>>
       ELSE /\ wpc' = [wpc EXCEPT ![p] = "read"]
            /\ UNCHANGED <<chan, sent, counterVars>>
    /\ UNCHANGED <<treeVars, foreign_keys, cliVars, dbVars, pc, runs, cfgVars,
                   consumerVars, summary, reads, start_db, dirty, unchanged,
                   interrupted>>

\* The rest of the task: fs::read_to_string, the hash, the hash skip, the
\* parse and the send of the symbol-level ParseResult.
WorkerRead(p) ==
    /\ pc = "consume"
    /\ wpc[p] = "read"
    /\ wpc' = [wpc EXCEPT ![p] = "done"]
    /\ reads' = reads \cup {p}
    /\ IF ~Readable(disk[p].content)
       THEN UNCHANGED <<chan, sent, counterVars>>
       ELSE IF HashSkip(p)
       THEN /\ skipped_counter' = skipped_counter + 1
            /\ Send(SkipResult(p, calculate_hash(disk[p].content),
                               db_files[p].index_level))
            /\ UNCHANGED <<parse_counter, parsed_counter, meta_counter>>
       ELSE /\ parsed_counter' = parsed_counter + 1
            /\ Send(SymbolResult(p))
            /\ UNCHANGED <<parse_counter, meta_counter, skipped_counter>>
    /\ UNCHANGED <<treeVars, foreign_keys, cliVars, dbVars, pc, runs, cfgVars,
                   consumerVars, summary, start_db, dirty, unchanged,
                   interrupted>>

\* ------------------------------------------------------------ the consumer
\* mutant of BatchFull: off by one
BatchFull_OffByOne(n) == n > batch_size

\* if changed_in_batch >= batch_size
BatchFull(n) == n >= batch_size

\* One iteration of `for res in rx_chan`: the skip test, the writes of the
\* file and the batch commit that may follow them.
Consume ==
    /\ pc = "consume"
    /\ chan # <<>>
    /\ LET res == Head(chan)
           d == PersistFile(db, foreign_keys, res)
       IN  /\ chan' = Tail(chan)
           /\ processed_count' = processed_count + 1
           /\ IF res.language = "skip"
              THEN UNCHANGED <<dbVars, changed_in_batch>>
              ELSE /\ db' = d
                   /\ IF BatchFull(changed_in_batch + 1)
                      THEN /\ committed' = d
                           /\ changed_in_batch' = 0
                      ELSE /\ changed_in_batch' = changed_in_batch + 1
                           /\ UNCHANGED committed
    /\ UNCHANGED <<treeVars, foreign_keys, cliVars, pc, runs, cfgVars, counterVars, wpc,
                   summary, histVars>>

\* mutant of JoinCommit: the loop is left while results are still in flight
JoinCommit_Early ==
    /\ pc = "consume"
    /\ committed' = db
    /\ pc' = "link"
    /\ UNCHANGED <<treeVars, foreign_keys, cliVars, db, runs, cfgVars, counterVars, wpc,
                   chan, consumerVars, summary, histVars>>

\* The receive loop ends when every sender is dropped and the channel is
\* drained; producer_handle.join() and the commit of the last batch.
JoinCommit ==
    /\ pc = "consume"
    /\ chan = <<>>
    /\ \A p \in Paths : wpc[p] = "done"
    /\ committed' = db
    /\ pc' = "link"
    /\ UNCHANGED <<treeVars, foreign_keys, cliVars, db, runs, cfgVars, counterVars, wpc,
                   chan, consumerVars, summary, histVars>>

\* final_tx: the linking UPDATE
Link ==
    /\ pc = "link"
    /\ db' = LinkCalls(db)
    /\ pc' = "cleanup"
    /\ UNCHANGED <<treeVars, foreign_keys, cliVars, committed, runs, cfgVars,
                   counterVars, wpc, chan, consumerVars, summary, histVars>>

\* final_tx: the orphan cleanup
Cleanup ==
    /\ pc = "cleanup"
    /\ db' = CleanupOrphans(db, foreign_keys,
                            {p \in DOMAIN db.files : ~Exists(p)})
    /\ pc' = "final_commit"
    /\ UNCHANGED <<treeVars, foreign_keys, cliVars, committed, runs, cfgVars,
                   counterVars, wpc, chan, consumerVars, summary, histVars>>

\* final_tx.commit()
FinalCommit ==
    /\ pc = "final_commit"
    /\ committed' = db
    /\ pc' = "checkpoint"
    /\ UNCHANGED <<treeVars, foreign_keys, cliVars, db, runs, cfgVars, counterVars, wpc,
                   chan, consumerVars, summary, histVars>>

\* mutant of Finish: parsed_files is read from the budget counter
Finish_BudgetCounter ==
    /\ pc = "checkpoint"
    /\ summary' = [status |-> "success",
                   total_files |-> Cardinality(entries),
                   parsed_files |-> parse_counter,
                   meta_files |-> meta_counter,
                   skipped_files |-> skipped_counter,
                   strategy |-> strategy]
    /\ pc' = "idle"
    /\ UNCHANGED <<treeVars, foreign_keys, cliVars, dbVars, runs, cfgVars, counterVars,
                   wpc, chan, consumerVars, histVars>>

\* The truncating checkpoint, the IndexResult and the return of run_indexer
Finish ==
    /\ pc = "checkpoint"
    /\ summary' = [status |-> "success",
                   total_files |-> Cardinality(entries),
                   parsed_files |-> parsed_counter,
                   meta_files |-> meta_counter,
                   skipped_files |-> skipped_counter,
                   strategy |-> strategy]
    /\ pc' = "idle"
    /\ UNCHANGED <<treeVars, foreign_keys, cliVars, dbVars, runs, cfgVars, counterVars,
                   wpc, chan, consumerVars, histVars>>

\* The process is killed, or a commit fails and run_indexer returns the
\* error: the open transaction is rolled back, no summary is written.  The
\* killed run does not count as a run.
Crash ==
    /\ pc # "idle"
    /\ interrupted = NotInterrupted
    /\ interrupted' = [phase |-> "killed", db |-> start_db, args |-> args]
    /\ db' = committed
    /\ pc' = "idle"
    /\ runs' = runs - 1
    /\ wpc' = [p \in Paths |-> "done"]
    /\ chan' = <<>>
    /\ args' = NoArgs
    /\ entries' = {}
    /\ db_files' = <<>>
    /\ strategy' = "none"
    /\ parse_counter' = 0
    /\ parsed_counter' = 0
    /\ meta_counter' = 0
    /\ skipped_counter' = 0
    /\ processed_count' = 0
    /\ changed_in_batch' = 0
    /\ summary' = NoSummary
    /\ reads' = {}
    /\ sent' = {}
    /\ start_db' = EmptyDb
    /\ unchanged' = FALSE
    /\ UNCHANGED <<treeVars, foreign_keys, cliVars, committed, dirty>>

Next ==
    \/ \E p \in EditablePaths, c \in Contents, m \in Mtimes : WriteFile(p, c, m)
    \/ \E p \in EditablePaths : DeleteFile(p)
    \/ \E a \in ArgChoices : StartRun(a)
    \/ \E p \in Paths : WorkerStart(p)
    \/ \E p \in Paths : WorkerRead(p)
    \/ Consume
    \/ JoinCommit
    \/ Link
    \/ Cleanup
    \/ FinalCommit
    \/ Finish

Spec == Init /\ [][Next]_vars

\* Index runs alone, on a tree of three files that nobody edits
NextBootstrap ==
    \/ \E a \in BootstrapArgChoices : StartRun(a)
    \/ \E p \in Paths : WorkerStart(p)
    \/ \E p \in Paths : WorkerRead(p)
    \/ Consume
    \/ JoinCommit
    \/ Link
    \/ Cleanup
    \/ FinalCommit
    \/ Finish

SpecBootstrap == InitBootstrap /\ [][NextBootstrap]_vars

\* ---- the pipeline under fair scheduling
\* The tasks of the pool run on live threads and the consumer is the main
\* thread: neither waits for anything but the other's progress.
Workers == \E p \in Paths : WorkerStart(p) \/ WorkerRead(p)

Consumer == Consume \/ JoinCommit \/ Link \/ Cleanup \/ FinalCommit \/ Finish

SpecPipeline ==
    InitBootstrap /\ [][NextBootstrap]_vars
        /\ WF_vars(Workers) /\ WF_vars(Consumer)

\* Index runs that can be killed at any point
NextCrash ==
    \/ \E p \in EditablePaths, c \in Contents, m \in Mtimes : WriteFile(p, c, m)
    \/ \E p \in EditablePaths : DeleteFile(p)
    \/ \E a \in CrashArgChoices : StartRun(a)
    \/ \E p \in Paths : WorkerStart(p)
    \/ \E p \in Paths : WorkerRead(p)
    \/ Consume
    \/ JoinCommit
    \/ Link
    \/ Cleanup
    \/ FinalCommit
    \/ Finish
    \/ Crash

SpecCrash == InitCrash /\ [][NextCrash]_vars

\* ------------------------------------------- query and analyze processes
indexVars == <<treeVars, foreign_keys, dbVars, pc, runs, cfgVars, counterVars,
               wpc, chan, consumerVars, summary, histVars>>

\* A process started with --mode query reads the database and exits
RunQuery(req, order) ==
    /\ pc = "idle"
    /\ request = NoRequest
    /\ request' = req
    /\ output' = run_query(committed, order, req)
    /\ UNCHANGED <<indexVars, snapshots>>

\* A process started with --mode analyze reads the database and exits
RunAnalyze(req, order) ==
    /\ pc = "idle"
    /\ request = NoRequest
    /\ request' = req
    /\ \E walk_visits \in AnalyzeWalks(committed, order, req) :
          output' = run_analyze(committed, order, req, walk_visits)
    /\ UNCHANGED <<indexVars, snapshots>>

\* the caller has read the output file
OutputRead ==
    /\ request # NoRequest
    /\ request' = NoRequest
    /\ output' = NoOutput
    /\ UNCHANGED <<indexVars, snapshots>>

\* A process started with --mode snapshot writes the snapshot file
RunSnapshot(name, order) ==
    /\ pc = "idle"
    /\ request = NoRequest
    /\ snapshots[name] = NoFile
    /\ snapshots' = [snapshots EXCEPT ![name] = run_snapshot(committed, order)]
    /\ UNCHANGED <<indexVars, request, output>>

\* A process started with --mode diff --base base --target target
RunDiff ==
    /\ pc = "idle"
    /\ request = NoRequest
    /\ request' = [mode |-> "diff"]
    /\ output' \in run_diff(snapshots["base"], snapshots["target"])
    /\ UNCHANGED <<indexVars, snapshots>>

NextQuery ==
    \/ \E req \in QueryRequests, order \in ScanOrders : RunQuery(req, order)
    \/ \E req \in AnalyzeRequests, order \in ScanOrders : RunAnalyze(req, order)
    \/ OutputRead

SpecQuery == InitQuery /\ [][NextQuery]_vars

NextAnalyze ==
    \/ \E req \in AnalyzeRequests, order \in ScanOrders : RunAnalyze(req, order)
    \/ OutputRead

SpecAnalyze == InitAnalyze /\ [][NextAnalyze]_vars

\* The invocation of SpecSnapshot: the defaults
SnapshotArgChoices ==
    {[force_full |-> FALSE, huge_threshold |-> 50000, bootstrap_parse_budget |-> 5000]}

\* a.py defines foo, with or without a call of bar; b.py, if there, bar
SnapshotTrees ==
    {t \in [Paths -> {Absent} \cup [content : Contents, mtime : {1}]] :
        /\ t["a.py"] # Absent /\ t["a.py"].content \in {"foo_calls_bar", "foo_only"}
        /\ t["b.py"] = Absent \/ t["b.py"].content = "bar_only"
        /\ t["c.py"] = Absent}

\* snapshot files that come from elsewhere: against foo of a.py, function,
\* line 1, calling bar and baz, a target that moved it, made it a class,
\* moved its line, listed its calls otherwise, dropped a call, or kept it
ForeignSnapshotPairs ==
    LET foo == [name |-> "foo", qualified_name |-> "foo", file_path |-> "a.py",
                symbol_type |-> "function", line_start |-> 1,
                calls |-> <<"bar", "baz">>]
        file(entry) == SnapshotFile([k \in {FooKey} |-> entry])
    IN  {[name \in {"base", "target"} |->
            IF name = "base" THEN file(foo) ELSE file(entry)] :
                entry \in {foo,
                           [foo EXCEPT !.file_path = "b.py"],
                           [foo EXCEPT !.symbol_type = "class"],
                           [foo EXCEPT !.line_start = 2],
                           [foo EXCEPT !.calls = <<"baz", "bar", "bar">>],
                           [foo EXCEPT !.calls = <<"bar">>]}}

InitSnapshot ==
    InitFiles(SnapshotTrees, {EmptyDb}, {NoSnapshots} \cup ForeignSnapshotPairs)

\* Index runs, edits of a.py, snapshots of the index and their diff
NextSnapshot ==
    \/ \E c \in {"foo_calls_bar", "foo_only", "bar_only"}, m \in Mtimes :
          WriteFile("a.py", c, m)
    \/ \E a \in SnapshotArgChoices : StartRun(a)
    \/ \E p \in Paths : WorkerStart(p)
    \/ \E p \in Paths : WorkerRead(p)
    \/ Consume
    \/ JoinCommit
    \/ Link
    \/ Cleanup
    \/ FinalCommit
    \/ Finish
    \/ \E name \in {"base", "target"}, order \in ScanOrders : RunSnapshot(name, order)
    \/ RunDiff
    \/ OutputRead

SpecSnapshot == InitSnapshot /\ [][NextSnapshot]_vars

\* ---- index runs over a changing tree, each followed by analyses
IndexAnalyzeRequests ==
    [mode : {"analyze"}, query : {Some("foo"), Some("bar")},
     file : {None}, line : {None}, direction : {"backward", "forward"},
     output : {TRUE}]

\* the output of an analysis is read before the next run starts
NextIndexAnalyze ==
    \/ \E p \in EditablePaths : DeleteFile(p)
    \/ \E a \in SnapshotArgChoices : request = NoRequest /\ StartRun(a)
    \/ \E p \in Paths : WorkerStart(p)
    \/ \E p \in Paths : WorkerRead(p)
    \/ Consume
    \/ JoinCommit
    \/ Link
    \/ Cleanup
    \/ FinalCommit
    \/ Finish
    \/ \E req \in IndexAnalyzeRequests, order \in ScanOrders : RunAnalyze(req, order)
    \/ OutputRead

SpecIndexAnalyze == InitFiles(SnapshotTrees, {EmptyDb}, {NoSnapshots})
                       /\ [][NextIndexAnalyze]_vars

\* ---- a file with two classes that each define a method run
SameNameTrees ==
    {t \in [Paths -> {Absent} \cup
                      [content : {"two_classes", "bar_only"}, mtime : {1}]] :
        /\ t["a.py"] # Absent
        /\ t["b.py"] = Absent \/ t["b.py"].content = "bar_only"
        /\ t["c.py"] = Absent}

InitSameName == InitFiles(SameNameTrees, {EmptyDb}, {NoSnapshots})

NextSameName ==
    \/ \E a \in SnapshotArgChoices : StartRun(a)
    \/ \E p \in Paths : WorkerStart(p)
    \/ \E p \in Paths : WorkerRead(p)
    \/ Consume
    \/ JoinCommit
    \/ Link
    \/ Cleanup
    \/ FinalCommit
    \/ Finish
    \/ \E name \in {"base", "target"}, order \in ScanOrders : RunSnapshot(name, order)

SpecSameName == InitSameName /\ [][NextSameName]_vars

\* diff on any two snapshot files
InitDiff == InitFiles(NoTree, {EmptyDb}, SnapshotPairs)

NextDiff ==
    \/ RunDiff
    \/ OutputRead

SpecDiff == InitDiff /\ [][NextDiff]_vars

\* ================================================================= claims
\* run_indexer has returned Ok(()); nothing has happened since.
RunDone == pc = "idle" /\ summary # NoSummary

\* a run is in progress or has just returned: its locals are in place
InRun == pc # "idle" \/ RunDone

SymbolsOf(d, p) == {s \in d.symbols : s.file = p}

CallsOf(d, p) ==
    {c \in d.calls : \E s \in SymbolsOf(d, p) : s.symbol_id = c.caller_id}

\* the discovered files that have a grammar
Eligible == {p \in entries : Ext(p) \in SupportedExts}

\* C1: after a successful index run every call row with a non-null
\* callee_id holds the canonical id of a symbol row that exists; a call whose
\* only target disappeared is unresolved (NULL) again.
C1_CalleeIdsResolve ==
    RunDone =>
        \A c \in committed.calls :
            c.callee_id # NULL =>
                \E s \in committed.symbols : s.canonical_id = c.callee_id

\* C2: after a successful index run no files row exists whose path does not
\* exist on disk; in particular every symbol-level row names an existing file.
C2_NoOrphanFiles ==
    RunDone =>
        /\ \A p \in DOMAIN committed.files : Exists(p)
        /\ \A p \in DOMAIN committed.files :
              committed.files[p].index_level = "symbol" => disk[p] # Absent

\* C2 witness: a run has ended whose database held, at its start, a row of a
\* file that is no longer on disk.
C2_Witness ==
    /\ RunDone
    /\ \E p \in DOMAIN start_db.files : ~Exists(p)

\* C3: after any sequence of successful index runs every calls row has a
\* caller_id that is the symbol_id of an existing symbols row.
C3_CallersExist ==
    RunDone =>
        \A c \in committed.calls :
            \E s \in committed.symbols : s.symbol_id = c.caller_id

\* the rows a file must have, ids aside, when its content is c
ExpectedSymbols(p, c) ==
    {[file |-> p, name |-> x.name, symbol_type |-> x.symbol_type,
      canonical_id |-> CanonicalId(p, x)] : x \in Range(ExtractSymbols(c))}

ExpectedCalls(c) ==
    {[caller |-> (CHOOSE x \in Range(ExtractSymbols(c)) :
                      x.temp_id = k.caller_temp_id).name,
      callee_name |-> k.callee_name, call_line |-> k.line] :
        k \in Range(ExtractCalls(c))}

SymbolContent(d, p) ==
    {[file |-> s.file, name |-> s.name, symbol_type |-> s.symbol_type,
      canonical_id |-> s.canonical_id] : s \in SymbolsOf(d, p)}

CallContent(d, p) ==
    {[caller |-> (CHOOSE s \in SymbolsOf(d, p) : s.symbol_id = c.caller_id).name,
      callee_name |-> c.callee_name, call_line |-> c.call_line] :
        c \in CallsOf(d, p)}

AllSymbolLevel(d) ==
    \A p \in Eligible :
        /\ Readable(disk[p].content)
        /\ p \in DOMAIN d.files
        /\ d.files[p].index_level = "symbol"

C6_MetadataFastPath ==
    \A p \in entries :
        (/\ InRun
         /\ p \in DOMAIN db_files
         /\ db_files[p].index_level = "symbol"
         /\ db_files[p].file_size = Size(disk[p].content)
         /\ db_files[p].file_mtime = disk[p].mtime)
        => /\ p \notin reads
           /\ wpc[p] # "read"
           /\ \A l \in {"meta", Ext(p)} : <<p, l>> \notin sent
           /\ wpc[p] = "done" => <<p, "skip">> \in sent
           /\ SymbolsOf(db, p) = SymbolsOf(start_db, p)
           /\ SymbolsOf(committed, p) = SymbolsOf(start_db, p)
           /\ p \in DOMAIN committed.files
           /\ committed.files[p] = start_db.files[p]

\* C6 witness: a run has ended in which such a file held another content
\* than the one indexed.
C6_Witness ==
    /\ RunDone
    /\ \E p \in entries :
          /\ p \in DOMAIN db_files
          /\ db_files[p].index_level = "symbol"
          /\ db_files[p].file_size = Size(disk[p].content)
          /\ db_files[p].file_mtime = disk[p].mtime
          /\ db_files[p].file_hash # calculate_hash(disk[p].content)
          /\ Readable(disk[p].content)
          /\ SymbolContent(committed, p) # ExpectedSymbols(p, disk[p].content)

\* C7: after a run that observed an eligible, readable file with a size or
\* mtime other than the stored one, the row holds the size and mtime
\* observed, also when the content hash is unchanged.
C7_RowFollowsMetadata ==
    RunDone =>
        \A p \in Eligible :
            (/\ Readable(disk[p].content)
             /\ p \in DOMAIN start_db.files
             /\ \/ start_db.files[p].file_size # Size(disk[p].content)
                \/ start_db.files[p].file_mtime # disk[p].mtime)
            => /\ p \in DOMAIN committed.files
               /\ committed.files[p].file_size = Size(disk[p].content)
               /\ committed.files[p].file_mtime = disk[p].mtime

\* C8: the strategy is force_full when requested, else bootstrap exactly when
\* (the stored file table is empty or has a meta row) and total_files > HUGE,
\* else full_or_incremental; force_full applies no budget, in
\* full_or_incremental every file that is not skipped is parsed, and the
\* summary carries the strategy.
C8_StrategySelection ==
    InRun =>
        LET total == Cardinality(entries)
            backlog == \E p \in DOMAIN db_files : db_files[p].index_level = "meta"
            parsedOrSkipped(p) == <<p, "skip">> \in sent \/ <<p, Ext(p)>> \in sent
        IN  /\ strategy =
                  IF args.force_full THEN "force_full"
                  ELSE IF (DOMAIN db_files = {} \/ backlog)
                          /\ total > args.huge_threshold THEN "bootstrap"
                  ELSE "full_or_incremental"
            /\ strategy \in {"force_full", "full_or_incremental"} =>
                  /\ parse_counter = 0
                  /\ meta_counter = 0
                  /\ \A p \in Paths : <<p, "meta">> \notin sent
                  /\ RunDone =>
                        \A p \in Eligible :
                            Readable(disk[p].content) => parsedOrSkipped(p)
                  /\ RunDone =>
                        \A p \in Eligible :
                            <<p, "skip">> \notin sent /\ Readable(disk[p].content)
                                => /\ p \in DOMAIN committed.files
                                   /\ committed.files[p].index_level = "symbol"
            /\ RunDone => summary.strategy = strategy

\* C8 witness: a force_full run has ended on a tree that is huge, from an
\* empty database, and it parsed more files than the budget.
C8_Witness ==
    /\ RunDone
    /\ strategy = "force_full"
    /\ DOMAIN db_files = {}
    /\ Cardinality(entries) > args.huge_threshold
    /\ parsed_counter > args.bootstrap_parse_budget

RowsAt(d, level) == {p \in DOMAIN d.files : d.files[p].index_level = level}

\* C9: a bootstrap run on an initial build with N parseable files ends with
\* min(N, BUDGET) symbol-level rows and N - min(N, BUDGET) meta rows under
\* every interleaving; at no moment are more than BUDGET files admitted to
\* the full parse.
C9_BootstrapCutoff ==
    (/\ InRun
     /\ strategy = "bootstrap"
     /\ DOMAIN db_files = {}
     /\ \A p \in Eligible : Readable(disk[p].content))
    => LET N == Cardinality(Eligible)
           B == args.bootstrap_parse_budget
           admitted == {p \in Paths : wpc[p] = "read" \/ p \in reads}
       IN  /\ Cardinality(admitted) <= B
           /\ RunDone =>
                 /\ Cardinality(RowsAt(committed, "symbol")) = Min({N, B})
                 /\ Cardinality(RowsAt(committed, "meta")) = N - Min({N, B})
                 /\ summary.parsed_files = Min({N, B})
                 /\ summary.meta_files = N - Min({N, B})

\* C9 witness: such a run has ended on three files with a budget of two
C9_Witness ==
    /\ RunDone
    /\ strategy = "bootstrap"
    /\ DOMAIN db_files = {}
    /\ \A p \in Eligible : Readable(disk[p].content)
    /\ Cardinality(Eligible) = 3
    /\ args.bootstrap_parse_budget = 2
    /\ Cardinality(RowsAt(committed, "meta")) = 1

\* C10: on an unchanged tree with BUDGET >= 1 a later run turns
\* min(BUDGET, number of meta rows) files from meta into symbol (all of them
\* when the run is not a bootstrap run) and turns no symbol-level file into
\* meta.
C10_MetaRowsUpgraded ==
    RunDone /\ unchanged /\ args.bootstrap_parse_budget >= 1 =>
        LET M == RowsAt(start_db, "meta")
            upgraded == M \cap RowsAt(committed, "symbol")
        IN  /\ Cardinality(upgraded) =
                  IF strategy = "bootstrap"
                  THEN Min({args.bootstrap_parse_budget, Cardinality(M)})
                  ELSE Cardinality(M)
            /\ RowsAt(start_db, "symbol") \subseteq RowsAt(committed, "symbol")

\* the row of table rows that has the smallest row id
FirstById(rows) ==
    CHOOSE s \in rows : \A t \in rows : s.symbol_id <= t.symbol_id

\* what the linking pass does to each call row, as the claim describes it
LinkStepAsClaimed ==
    pc = "link" /\ pc' = "cleanup" =>
        /\ {c.call_id : c \in db'.calls} = {c.call_id : c \in db.calls}
        /\ \A c \in db.calls :
            LET after == CHOOSE r \in db'.calls : r.call_id = c.call_id
                matching == {s \in db.symbols : s.name = c.callee_name}
                own == {s \in matching :
                          \E k \in db.symbols :
                              k.symbol_id = c.caller_id /\ k.file = s.file}
            IN  /\ after = [c EXCEPT !.callee_id = after.callee_id]
                /\ c.callee_id # NULL => after.callee_id = c.callee_id
                /\ c.callee_id = NULL /\ matching = {} =>
                      after.callee_id = NULL
                /\ c.callee_id = NULL /\ matching # {} =>
                      after.callee_id =
                         IF own # {} THEN FirstById(own).canonical_id
                         ELSE FirstById(matching).canonical_id

\* C11: the linking pass gives every call row whose callee_id is NULL and
\* whose callee_name is the name of at least one symbol the canonical id of
\* the matching symbol with the smallest row id in the caller's own file if
\* there is one, else of the matching symbol with the smallest row id in any
\* file; a call with no matching symbol stays NULL and a call with a non-null
\* callee_id is left as it is.
C11_LinkingPass == [][LinkStepAsClaimed]_vars

\* ---- C12: a killed run and the run that follows it
\* what the database holds for one file, row ids and callee_id aside
FileView(d, p) ==
    [row |-> IF p \in DOMAIN d.files THEN <<d.files[p]>> ELSE <<>>,
     symbols |-> SymbolContent(d, p),
     calls |-> CallContent(d, p)]

\* the states a run can give a file of the tree: fully parsed, meta, or
\* removed by the orphan cleanup
NewFileViews(p) ==
    IF ~Exists(p) THEN {[row |-> <<>>, symbols |-> {}, calls |-> {}]}
    ELSE {[row |-> <<[file_hash |-> calculate_hash(disk[p].content),
                      file_size |-> file_size(p), file_mtime |-> file_mtime(p),
                      language |-> Ext(p), index_level |-> "symbol",
                      indexed_at |-> 1]>>,
           symbols |-> ExpectedSymbols(p, disk[p].content),
           calls |-> ExpectedCalls(disk[p].content)],
          [row |-> <<[file_hash |-> MetaHash(file_size(p), file_mtime(p)),
                      file_size |-> file_size(p), file_mtime |-> file_mtime(p),
                      language |-> "meta", index_level |-> "meta",
                      indexed_at |-> 0]>>,
           symbols |-> {}, calls |-> {}]}

\* the contents of a database, auto-ids aside
DbContent(d) ==
    [files |-> d.files,
     symbols |-> {[file |-> x.file, name |-> x.name,
                   symbol_type |-> x.symbol_type,
                   canonical_id |-> x.canonical_id] : x \in d.symbols},
     calls |-> {[caller |-> {x.canonical_id : x \in
                                {y \in d.symbols : y.symbol_id = c.caller_id}},
                 callee_name |-> c.callee_name, call_line |-> c.call_line,
                 callee_id |-> c.callee_id] : c \in d.calls}]

Perms(S) ==
    {f \in [1..Cardinality(S) -> S] : \A i, j \in DOMAIN f : f[i] = f[j] => i = j}

\* what the task of p sends in a run that starts from the file rows files,
\* when the tasks in admitted are those the budget gate lets through
ResultOf(files, a, admitted, p) ==
    LET known == p \in DOMAIN files
        gate == UseBootstrapStrategy(files, Cardinality({q \in Paths : Exists(q)}),
                                     a.huge_threshold) /\ ~a.force_full
    IN  IF known /\ files[p].index_level = "symbol"
              /\ files[p].file_size = file_size(p)
              /\ files[p].file_mtime = file_mtime(p)
        THEN <<>>
        ELSE IF gate /\ p \notin admitted THEN <<MetaResult(p)>>
        ELSE IF ~Readable(disk[p].content) THEN <<>>
        ELSE IF known /\ files[p].file_hash = calculate_hash(disk[p].content)
        THEN <<>>
        ELSE <<SymbolResult(p)>>

\* the tasks that reach the budget gate
AtGate(files) ==
    {p \in Paths :
        /\ Exists(p)
        /\ ~(/\ p \in DOMAIN files
             /\ files[p].index_level = "symbol"
             /\ files[p].file_size = file_size(p)
             /\ files[p].file_mtime = file_mtime(p))}

RECURSIVE PersistAll(_, _, _)
PersistAll(d, fk, results) ==
    IF results = <<>> THEN d
    ELSE PersistAll(PersistFile(d, fk, Head(results)), fk, Tail(results))

\* the contents an index run that nobody kills can leave, started from the
\* database d0 with the arguments a on the present tree
UninterruptedOutcomes(d0, fk, a) ==
    LET present == {p \in Paths : Exists(p)}
        gate == AtGate(d0.files)
        n == Cardinality(gate)
        k == IF a.bootstrap_parse_budget < n THEN a.bootstrap_parse_budget ELSE n
    IN  {DbContent(
            CleanupOrphans(
                LinkCalls(PersistAll(d0, fk,
                    Flatten([i \in DOMAIN order |->
                        ResultOf(d0.files, a, admitted, order[i])]))),
                fk, {p \in DOMAIN d0.files : ~Exists(p)})) :
            admitted \in {A \in SUBSET gate : Cardinality(A) = k},
            order \in Perms(present)}

\* C12, first part: when a run is killed, every file is in the database
\* either as the run found it or as the run makes it.
C12_KilledRunLeavesWholeFiles ==
    interrupted.phase = "killed" =>
        \A p \in Paths :
            FileView(committed, p) \in
                {FileView(interrupted.db, p)} \cup NewFileViews(p)

\* C12: when an index run is killed, every file is in the database either
\* fully in its old state or fully in its new state, and the complete run
\* that follows, with the same arguments on the same tree, leaves the file,
\* symbol and call contents (resolved callee_id values included, auto-ids
\* aside) that some run nobody kills leaves from the same start.
C12_RecoveryMatchesUninterrupted ==
    /\ C12_KilledRunLeavesWholeFiles
    /\ (RunDone /\ interrupted.phase = "recovering" /\ args = interrupted.args) =>
          DbContent(committed) \in
              UninterruptedOutcomes(interrupted.db, foreign_keys, args)

\* the run that was killed had not selected the bootstrap strategy
KilledRunNotBootstrap ==
    ~UseBootstrapStrategy(interrupted.db.files,
                          Cardinality({p \in Paths : Exists(p)}),
                          interrupted.args.huge_threshold)

\* C12 amended: when an index run is killed, every file is in the database
\* either fully in its old state or fully in its new state; when the killed
\* run had not selected the bootstrap strategy, the complete run that
\* follows, with the same arguments on the same tree, leaves the file, symbol
\* and call contents (resolved callee_id values included, auto-ids aside)
\* that some run nobody kills leaves from the same start.
C12_RecoveryMatchesWhenNotBootstrap ==
    /\ C12_KilledRunLeavesWholeFiles
    /\ (/\ RunDone
        /\ interrupted.phase = "recovering"
        /\ args = interrupted.args
        /\ KilledRunNotBootstrap) =>
          DbContent(committed) \in
              UninterruptedOutcomes(interrupted.db, foreign_keys, args)

\* C12 witness: a run was killed after it had committed one file of two and
\* before it linked; the run that followed has parsed the other file and
\* resolved a call.
C12_Witness ==
    /\ RunDone
    /\ interrupted.phase = "recovering"
    /\ args = interrupted.args
    /\ KilledRunNotBootstrap
    /\ DbContent(start_db) # DbContent(interrupted.db)
    /\ start_db.symbols # {}
    /\ parsed_counter = 1
    /\ \E c \in committed.calls : c.callee_id # NULL

\* the files whose read failed in this run (not valid UTF-8)
Errored == {p \in reads : ~Readable(disk[p].content)}

\* the files whose task went through the budget gate in this run
PassedGate == {p \in entries : p \in reads \/ <<p, "meta">> \in sent}

\* C13: a file that hits a per-file transient error sends no ParseResult and
\* changes nothing in the database, and no counter counts it: parsed, meta
\* and skipped count the results sent, the budget consumed counts the files
\* at the gate that did not fail; the run completes with status success.
C13_TransientErrorIsSilent ==
    RunDone =>
        /\ summary.status = "success"
        /\ \A p \in Errored :
              /\ \A r \in sent : r[1] # p
              /\ FileView(committed, p) = FileView(start_db, p)
        /\ parsed_counter = Cardinality({r \in sent : r[2] = Ext(r[1])})
        /\ meta_counter = Cardinality({r \in sent : r[2] = "meta"})
        /\ skipped_counter = Cardinality({r \in sent : r[2] = "skip"})
        /\ parse_counter =
              IF BudgetGate THEN Cardinality(PassedGate \ Errored) ELSE 0

\* ---- the lookup by name
ByName(req) ==
    /\ req.mode = "query"
    /\ req.query # None
    /\ (req.file = None \/ req.line = None)

LayerOrder == <<"exact", "prefix_suffix", "substring", "levenshtein", "stem">>

\* whether a layer has at least one hit for Q among the symbols
LayerHit(nodes, q, layer) ==
    CASE layer = "exact" -> exact_match(nodes, q) # None
      [] layer = "prefix_suffix" ->
            prefix_suffix_match_multi(nodes, q, max_candidates) # <<>>
      [] layer = "substring" ->
            substring_match_multi(nodes, q, max_candidates) # <<>>
      [] layer = "levenshtein" ->
            levenshtein_match_multi(nodes, q, max_distance, max_candidates) # <<>>
      [] layer = "stem" ->
            /\ Len(Chars(q)) >= 4
            /\ \E i \in DOMAIN nodes :
                  Like(SubSeq(Chars(q), 1, 4) \o <<"%">>, Chars(nodes[i].name))

\* C14: the lookup evaluates exact, prefix/suffix, substring, Levenshtein,
\* stem in this order and returns the result of the first layer with a hit:
\* the layers consulted are those up to the first hit, the match type is
\* that layer's, the stem layer is attempted only when |Q| >= 4, and not
\* found is reported exactly when no layer has a hit.
C14_LayersInOrder ==
    (ByName(request) /\ output # NoOutput) =>
        LET q == request.query[1]
            nodes == SymbolsJoinFiles(committed, "ascending")
            hits == {i \in 1..5 : LayerHit(nodes, q, LayerOrder[i])}
            first == CHOOSE i \in hits : \A j \in hits : i <= j
            last == IF hits # {} THEN first
                    ELSE IF Len(Chars(q)) >= 4 THEN 5 ELSE 4
        IN  /\ output.status = "success"
            /\ output.layers = SubSeq(LayerOrder, 1, last)
            /\ hits # {} =>
                  /\ output.found_symbol # None
                  /\ output.match_type = Some(LayerOrder[first])
            /\ hits = {} => output.found_symbol = None

\* the match type a candidate of a layer carries
OfLayer(candidate, layer) ==
    IF layer = "levenshtein"
    THEN /\ candidate.match_type \in {<<"levenshtein_d", dist>> : dist \in 0..max_distance}
         /\ candidate.score = 100 - 25 * candidate.match_type[2]
    ELSE /\ candidate.match_type = layer
         /\ candidate.score = CASE layer = "exact" -> 100
                                [] layer = "prefix_suffix" -> 90
                                [] layer = "substring" -> 80
                                [] layer = "stem" -> 50

\* C15: whenever the lookup by name finds a symbol, whichever layer matched,
\* the result carries between 1 and 5 candidates of the matching layer, each
\* with its match type and score, and the top match is the first candidate.
C15_TopMatchAndCandidates ==
    (ByName(request) /\ output # NoOutput /\ output.status = "success"
        /\ output.found_symbol # None) =>
        /\ Len(output.candidates) \in 1..max_candidates
        /\ \A i \in DOMAIN output.candidates :
              OfLayer(output.candidates[i], output.match_type[1])
        /\ output.candidates[1].node = output.found_symbol[1]

\* ---- the Levenshtein layer
\* the distance between the lowercased query and the lowercased name
Distance(q, name) == levenshtein(to_lowercase(Chars(q)), to_lowercase(Chars(name)))

\* the rows of symbols JOIN files within the threshold
WithinThreshold(d, q) ==
    {Node(s) : s \in {s \in d.symbols : Distance(q, s.name) <= max_distance}}

\* C16: the Levenshtein layer returns the symbols whose lowercased name is
\* within distance 3 of the lowercased query, by ascending distance, cut to
\* the first 5, each scored 1 - d/4, and the best match has the minimum
\* distance among all symbols.
C16_LevenshteinLayer ==
    (ByName(request) /\ output # NoOutput /\ output.status = "success"
        /\ output.match_type = Some("levenshtein")) =>
        LET q == request.query[1]
            cands == output.candidates
            within == WithinThreshold(committed, q)
            returned == {cands[i].node : i \in DOMAIN cands}
            dist(n) == Distance(q, n.name)
        IN  /\ returned \subseteq within
            /\ Cardinality(returned) = Len(cands)
            /\ Len(cands) = IF Cardinality(within) < 5 THEN Cardinality(within) ELSE 5
            /\ \A i, j \in DOMAIN cands :
                  i < j => dist(cands[i].node) <= dist(cands[j].node)
            /\ \A n \in within \ returned : \A r \in returned : dist(r) <= dist(n)
            /\ \A i \in DOMAIN cands :
                  /\ cands[i].match_type = <<"levenshtein_d", dist(cands[i].node)>>
                  /\ cands[i].score = 100 - 25 * dist(cands[i].node)
            /\ output.found_symbol = Some(cands[1].node)
            /\ \A s \in committed.symbols :
                  dist(output.found_symbol[1]) <= Distance(q, s.name)

\* six symbols are within the threshold, at different distances, and the
\* nearest one is not the first row of the scan
C16_Witness ==
    /\ ByName(request)
    /\ output.status = "success"
    /\ output.match_type = Some("levenshtein")
    /\ Cardinality(WithinThreshold(committed, request.query[1])) > 5
    /\ Len(output.candidates) = 5
    /\ output.candidates[1].score > output.candidates[5].score
    /\ \E s \in committed.symbols :
          /\ s.symbol_id < 4
          /\ Distance(request.query[1], s.name)
                > Distance(request.query[1], output.found_symbol[1].name)

\* ---- locate by position
ByPosition(req) ==
    /\ req.mode = "query"
    /\ req.file # None
    /\ req.line # None

\* the path ends with the file substring, forward-slash normalized
EndsWith(path, file) ==
    LET p == Chars(path)
        f == ForwardSlashes(Chars(file))
    IN  /\ Len(f) <= Len(p)
        /\ SubSeq(p, Len(p) - Len(f) + 1, Len(p)) = f

Qualifies(n, file, line) ==
    /\ EndsWith(n.file_path, file)
    /\ n.line_start <= line
    /\ line <= n.line_end

\* C17: locate-by-position returns a symbol that contains the line, in a
\* file whose path ends with the file substring, of the smallest range among
\* such symbols, and none iff none qualifies; with file and line given the
\* name query is not used.
C17_LocateByPosition ==
    (ByPosition(request) /\ output # NoOutput) =>
        LET file == request.file[1]
            line == request.line[1]
            qualifying == {Node(s) : s \in committed.symbols} 
            good == {n \in qualifying : Qualifies(n, file, line)}
        IN  /\ output.status = "success"
            /\ output.layers = <<>>
            /\ output.match_type = None
            /\ (output.found_symbol = None) <=> (good = {})
            /\ output.found_symbol # None =>
                  /\ output.found_symbol[1] \in good
                  /\ \A n \in good :
                        output.found_symbol[1].line_end - output.found_symbol[1].line_start
                            <= n.line_end - n.line_start

\* ---- callers
\* the call edges that name the primary symbol as their callee
EdgesTo(d, primary) ==
    {c \in d.calls :
        \/ c.callee_id = primary.id
        \/ (c.callee_id = NULL /\ c.callee_name = primary.name)}

CallerOf(d, c) == {Node(s) : s \in {s \in d.symbols : s.symbol_id = c.caller_id}}

\* C18: the callers returned for a resolved primary symbol are exactly the
\* caller symbols of the call edges with callee_id = primary.canonical_id or
\* with callee_id null and callee_name = primary.name; an edge resolved to
\* another canonical id contributes no caller.
C18_CallersOfPrimary ==
    (request.mode = "query" /\ output # NoOutput /\ output.status = "success"
        /\ output.found_symbol # None) =>
        LET primary == output.found_symbol[1]
            related == output.related_nodes
            edges == EdgesTo(committed, primary)
        IN  /\ {related[i].node : i \in DOMAIN related}
                  = UNION {CallerOf(committed, c) : c \in edges}
            /\ Len(related) = Cardinality(edges)
            /\ \A i \in DOMAIN related : related[i].call_type = "direct"
            /\ \A c \in committed.calls :
                  (c.callee_id # NULL /\ c.callee_id # primary.id) =>
                      \/ CallerOf(committed, c) = {}
                      \/ \E e \in edges : CallerOf(committed, e) = CallerOf(committed, c)
                      \/ \A i \in DOMAIN related : {related[i].node} # CallerOf(committed, c)

\* foo of s/a_b is the primary symbol; one edge is resolved to it, one names
\* foo with a null callee_id, one names foo and is resolved to foo of s/axb
C18_Witness ==
    /\ request.mode = "query"
    /\ output.status = "success"
    /\ output.found_symbol # None
    /\ output.found_symbol[1].id = <<"func", "s/a_b", "foo">>
    /\ committed.calls = QueryCallPool
    /\ Len(output.related_nodes) = 2

\* ---- target not found
\* whether some symbol of the index can be the target of the request
Resolvable(d, req) ==
    LET nodes == SymbolsJoinFiles(d, "ascending")
    IN  IF req.mode = "analyze"
        THEN req.query # None /\ ResolveTarget(nodes, req.query[1]) # None
        ELSE IF ByPosition(req)
        THEN LocateByPosition(nodes, req.file[1], req.line[1]) # None
        ELSE /\ req.query # None
             /\ \E i \in 1..5 : LayerHit(nodes, req.query[1], LayerOrder[i])

\* C19: when the target symbol is not found, query and analyze end without
\* a fatal error and write a JSON whose status is error, with a message;
\* status success is written only when a symbol was resolved.
C19_NotFoundIsReported ==
    (request # NoRequest /\ output # NoOutput) =>
        /\ ~Resolvable(committed, request) =>
              /\ output.status = "error"
              /\ "message" \in DOMAIN output
        /\ output.status = "success" => Resolvable(committed, request)

\* ---- reachability in analyze
\* the vertices one edge away from a set of vertices, in the graph that the
\* direction selects
Step(edges, direction, from) ==
    UNION {Range(Neighbours(edges, direction, v)) : v \in from}

Ids(callers) == {callers[i].node.id : i \in DOMAIN callers}

\* C20: on the graph the direction selects, the direct set is the set of
\* vertices at shortest-path distance 1 from the target and the indirect set
\* is the set of vertices at distance 2 or 3: none farther than 3 is
\* reported and none within 3 is missed.
C20_DirectAndIndirectByDistance ==
    (request.mode = "analyze" /\ output # NoOutput /\ output.status = "success") =>
        LET edges == GraphEdges(committed, "ascending")
            direction == request.direction
            at0 == {output.node_id}
            at1 == Step(edges, direction, at0) \ at0
            at2 == Step(edges, direction, at1) \ (at0 \cup at1)
            at3 == Step(edges, direction, at2) \ (at0 \cup at1 \cup at2)
        IN  /\ Ids(output.direct_callers) = at1
            /\ Ids(output.indirect_callers) = at2 \cup at3

\* ---- the complexity score
Analyzed == request.mode = "analyze" /\ output # NoOutput /\ output.status = "success"

\* the ids that paths of the forward graph reach from the target
RECURSIVE ForwardFrom(_, _)
ForwardFrom(edges, from) ==
    LET next == from \cup UNION {Range(Neighbours(edges, "forward", v)) : v \in from}
    IN  IF next = from THEN from ELSE ForwardFrom(edges, next)

\* C21: whatever the direction, the complexity score is
\* min(100, 0.5*coverage + 2.0*out_degree + 1.0*in_degree) with coverage the
\* number of distinct ids the walks visited on the forward graph; it is
\* binned Simple below 20, Medium below 50, High below 80, else Extreme, and
\* lies between 0.5 and 100.
C21_ComplexityScore ==
    Analyzed =>
        LET edges == GraphEdges(committed, "ascending")
            target == output.node_id
            out_degree == Cardinality({i \in DOMAIN edges : edges[i][1] = target})
            in_degree == Cardinality({i \in DOMAIN edges : edges[i][2] = target})
            coverage == Cardinality(output.walk_visits)
            raw == 50 * coverage + 200 * out_degree + 100 * in_degree
            score == output.complexity_score
        IN  /\ target \in output.walk_visits
            /\ output.walk_visits \subseteq ForwardFrom(edges, {target})
            /\ score = IF raw < 10000 THEN raw ELSE 10000
            /\ output.complexity_level =
                  CASE score < 2000 -> "Simple"
                    [] score >= 2000 /\ score < 5000 -> "Medium"
                    [] score >= 5000 /\ score < 8000 -> "High"
                    [] score >= 8000 -> "Extreme"
            /\ 50 <= score
            /\ score <= 10000

\* a backward analysis of a target with more callees than callers, whose
\* score the cap cuts to 100
C21_Witness ==
    /\ Analyzed
    /\ request.direction = "backward"
    /\ output.complexity_score = 10000
    /\ Cardinality(output.walk_visits) = 2
    /\ Cardinality(committed.calls) = 52

\* ---- snapshot and diff
Diffed == request.mode = "diff" /\ output # NoOutput /\ output.status = "success"

\* C22: the diff of a snapshot against itself has empty added, removed and
\* modified lists and no details, whatever the snapshot holds.
C22_DiffOfItself ==
    (Diffed /\ snapshots["base"] = snapshots["target"]) =>
        /\ output.added = <<>>
        /\ output.removed = <<>>
        /\ output.modified = <<>>
        /\ DOMAIN output.details = {}

\* a snapshot of three symbols, one with a repeated call name, against itself
C22_Witness ==
    /\ Diffed
    /\ snapshots["base"] = snapshots["target"]
    /\ Cardinality(DOMAIN snapshots["base"].symbols) = 3
    /\ snapshots["base"].symbols[FooKey].calls = <<"baz", "bar", "bar">>

\* C23: removed = keys(base) \ keys(target), added = keys(target) \
\* keys(base), modified is among the keys of both; the three lists are
\* pairwise disjoint and free of duplicates; swapping base and target swaps
\* added with removed and leaves the modified set as it is.
C23_DiffOfKeys ==
    Diffed =>
        LET base == DOMAIN snapshots["base"].symbols
            target == DOMAIN snapshots["target"].symbols
            added == Range(output.added)
            removed == Range(output.removed)
            modified == Range(output.modified)
        IN  /\ removed = base \ target
            /\ added = target \ base
            /\ modified \subseteq base \cap target
            /\ added \cap removed = {}
            /\ added \cap modified = {}
            /\ removed \cap modified = {}
            /\ Len(output.added) = Cardinality(added)
            /\ Len(output.removed) = Cardinality(removed)
            /\ Len(output.modified) = Cardinality(modified)
            /\ \A swapped \in run_diff(snapshots["target"], snapshots["base"]) :
                  /\ Range(swapped.added) = removed
                  /\ Range(swapped.removed) = added
                  /\ Range(swapped.modified) = modified

\* a diff with a key added, a key removed and a key modified
C23_Witness ==
    /\ Diffed
    /\ output.added # <<>>
    /\ output.removed # <<>>
    /\ output.modified # <<>>

\* C24: a key of both snapshots is modified iff its file_path, its
\* symbol_type or its set of call names differs; every modified key has one
\* details entry; after the call of bar is deleted from foo and the file is
\* indexed again, the diff of the snapshots before and after has foo
\* modified with a message that lists bar as a removed call.
C24_ModifiedKeys ==
    Diffed =>
        LET base == snapshots["base"].symbols
            target == snapshots["target"].symbols
            differ(k) == \/ base[k].file_path # target[k].file_path
                         \/ base[k].symbol_type # target[k].symbol_type
                         \/ Range(base[k].calls) # Range(target[k].calls)
        IN  /\ \A k \in DOMAIN base \cap DOMAIN target :
                  (k \in Range(output.modified)) <=> differ(k)
            /\ DOMAIN output.details = Range(output.modified)
            /\ Len(output.modified) = Cardinality(Range(output.modified))
            /\ \A k \in DOMAIN base \cap DOMAIN target :
                  (Range(base[k].calls) \ Range(target[k].calls) # {}) =>
                      \E i \in DOMAIN output.details[k].diff_msg :
                          LET part == output.details[k].diff_msg[i]
                          IN  /\ part[1] = "Removed calls"
                              /\ Range(part[2]) =
                                    Range(base[k].calls) \ Range(target[k].calls)
                              /\ Len(part[2]) = Cardinality(Range(part[2]))

\* foo of a.py called bar when the base snapshot was taken; the call was
\* deleted, the file indexed again and the target snapshot taken
C24_Witness ==
    /\ Diffed
    /\ runs = 2
    /\ disk["a.py"].content = "foo_only"
    /\ FooKey \in DOMAIN snapshots["base"].symbols
    /\ snapshots["base"].symbols[FooKey].calls = <<"bar">>
    /\ snapshots["target"] = run_snapshot(committed, "ascending")
    /\ output.modified = <<FooKey>>
    /\ output.details[FooKey].diff_msg = << <<"Removed calls", <<"bar">> >> >>

\* ---- the parse budget
MetaPersisted == {p \in Paths : <<p, "meta">> \in sent}

FullyParsed == {p \in Paths : <<p, Ext(p)>> \in sent}

\* C25: in a bootstrap run the budget is used up only by the files that are
\* fully parsed, so whenever a file is persisted as meta in a run, exactly
\* BUDGET files were fully parsed in that run.
C25_BudgetOnlyForParsedFiles ==
    (RunDone /\ MetaPersisted # {}) =>
        /\ Cardinality(FullyParsed) = args.bootstrap_parse_budget
        /\ parsed_counter = args.bootstrap_parse_budget

\* ---- meta rows and the fast path
MetaRowUnchanged(p) ==
    /\ p \in DOMAIN db_files
    /\ db_files[p].index_level = "meta"
    /\ db_files[p].file_size = Size(disk[p].content)
    /\ db_files[p].file_mtime = disk[p].mtime

\* C26: a file whose stored row is meta-level with the size and mtime found
\* on disk takes the skip fast path: it is sent as a skip marker, is not
\* read, does not pass the budget gate and is not persisted again in the run.
C26_MetaRowFastPath ==
    \A p \in entries :
        (InRun /\ MetaRowUnchanged(p))
        => /\ p \notin reads
           /\ wpc[p] # "read"
           /\ \A l \in {"meta", Ext(p)} : <<p, l>> \notin sent
           /\ wpc[p] = "done" => <<p, "skip">> \in sent
           /\ p \in DOMAIN committed.files
           /\ committed.files[p] = start_db.files[p]

\* C26 as amended: a file whose stored row is meta-level never takes the
\* metadata fast path, whatever its size and mtime: its task goes on to the
\* budget gate and the file is either read, and parsed when it is readable,
\* or persisted as meta again; it is never sent as a skip marker.
C26_MetaRowIsRetried ==
    \A p \in entries :
        (InRun /\ MetaRowUnchanged(p) /\ wpc[p] = "done")
        => /\ <<p, "skip">> \notin sent
           /\ BudgetGate => parse_counter >= 1
           /\ (p \in reads) # (<<p, "meta">> \in sent)
           /\ (p \in reads /\ Readable(disk[p].content))
                 => <<p, Ext(p)>> \in sent

\* C26 witness: a bootstrap run has ended over two unchanged meta rows, one
\* read and parsed, the other persisted as meta again.
C26_Witness ==
    /\ RunDone
    /\ \E p, q \in entries :
          /\ MetaRowUnchanged(p) /\ MetaRowUnchanged(q)
          /\ p \in reads /\ <<p, Ext(p)>> \in sent
          /\ <<q, "meta">> \in sent /\ q \notin reads
          /\ committed.files[p].index_level = "symbol"
          /\ committed.files[q] = start_db.files[q]

\* ---- the phases of a run
PhaseOrder ==
    {<<"idle", "consume">>, <<"consume", "link">>, <<"link", "cleanup">>,
     <<"cleanup", "final_commit">>, <<"final_commit", "checkpoint">>,
     <<"checkpoint", "idle">>}

FinalPhases == {"link", "cleanup", "final_commit", "checkpoint"}

AllConsumed ==
    /\ chan = <<>>
    /\ \A p \in Paths : wpc[p] = "done"
    /\ processed_count = Cardinality(sent)

PhaseStep ==
    /\ pc' # pc => <<pc, pc'>> \in PhaseOrder
    /\ pc \in FinalPhases =>
          /\ AllConsumed
          /\ processed_count' = processed_count /\ chan' = chan
          /\ pc # "cleanup" => db'.files = db.files /\ db'.symbols = db.symbols
          /\ \A p \in DOMAIN db'.files :
                p \in DOMAIN db.files /\ db'.files[p] = db.files[p]
          /\ db'.symbols \subseteq db.symbols
          /\ {c.call_id : c \in db'.calls} \subseteq {c.call_id : c \in db.calls}
    /\ pc = "link" => committed = db /\ committed' = committed
    /\ pc = "cleanup" => committed' = committed
    /\ pc = "checkpoint" => committed = db /\ db' = db

\* C27: the phases of a run follow one another in one order: linking starts
\* only when the last batch is committed and every ParseResult is consumed,
\* the orphan cleanup follows the linking, the truncating checkpoint comes
\* when both are committed, and no file is written once linking has started.
C27_PhasesInOrder == [][PhaseStep]_vars

\* C27 witness: a run is at its checkpoint after consuming two ParseResults
\* and linking a call between the two files.
C27_Witness ==
    /\ pc = "checkpoint"
    /\ processed_count >= 2
    /\ start_db.calls = {}
    /\ \E c \in committed.calls : c.callee_id # NULL

\* ---- the writes of one file
Received == pc = "consume" /\ chan # <<>> /\ chan' = Tail(chan)

WritesInOrder(res) ==
    LET upserted == UpsertFile(db, res)
        deleted == DeleteSymbols(upserted, foreign_keys, res.file_path)
        symbols == InsertSymbols(deleted, res)
        calls == InsertCalls(symbols, res, TempToDbId(res, deleted.seq_symbols))
    IN  IF res.index_level = "meta" THEN deleted ELSE calls

FileStep ==
    Received /\ Head(chan).language # "skip" =>
        LET res == Head(chan)
            mine == {s \in db'.symbols : s.file = res.file_path}
        IN  /\ db' = WritesInOrder(res)
            /\ committed' \in {committed, db'}
            /\ db'.files[res.file_path].file_hash = res.file_hash
            /\ \A s \in mine : s.symbol_id > db.seq_symbols
            /\ Cardinality(mine) = Len(res.symbols)
            /\ \A c \in db'.calls \ db.calls :
                  /\ c.caller_id \in {s.symbol_id : s \in mine}
                  /\ c.callee_id = NULL

\* C28: for every ParseResult that is not a skip marker the consumer writes
\* the file row, deletes the symbols of the file, inserts the symbols and
\* then the calls, in that order, and a commit comes only after the last of
\* these writes: what is committed never holds a part of a file's writes.
C28_WritesOfOneFile == [][FileStep]_vars

\* C28 witness: a file indexed by an earlier run was received again with
\* symbols and a call: its old rows are gone, the new ones are in.
C28_Witness ==
    /\ pc = "consume" /\ processed_count >= 1
    /\ \E p \in DOMAIN start_db.files :
          /\ <<p, Ext(p)>> \in sent
          /\ SymbolsOf(start_db, p) # {}
          /\ SymbolsOf(db, p) # {}
          /\ \A s \in SymbolsOf(db, p) : s.symbol_id > start_db.seq_symbols
          /\ \E c \in db.calls, s \in SymbolsOf(db, p) :
                c.caller_id = s.symbol_id

\* ---- the batches
BatchStep ==
    /\ Received =>
          IF Head(chan).language = "skip"
          THEN /\ changed_in_batch' = changed_in_batch
               /\ committed' = committed /\ db' = db
          ELSE IF changed_in_batch + 1 = batch_size
          THEN changed_in_batch' = 0 /\ committed' = db'
          ELSE /\ changed_in_batch' = changed_in_batch + 1
               /\ committed' = committed
    /\ (pc = "consume" /\ ~Received) =>
          IF pc' = "link"
          THEN chan = <<>> /\ committed' = db /\ db' = db
          ELSE committed' = committed /\ changed_in_batch' = changed_in_batch
    /\ changed_in_batch < batch_size /\ changed_in_batch' < batch_size

InFlight == Len(chan)

\* C30: the channel has a bounded capacity, which the ParseResults sent and
\* not yet received never exceed, a sender waiting while the channel is
\* full.  A capacity that does not grow with the tree is smaller than a tree
\* large enough, here the three files: then the results of all the files
\* are never in flight together.
C30_ChannelIsBounded == InFlight < Cardinality(Paths)

\* ---- every result once
ResultsOf(p) == {l \in {"skip", "meta", Ext(p)} : <<p, l>> \in sent}

Queued(p) == {i \in 1..Len(chan) : chan[i].file_path = p}

PipelineSafe ==
    /\ \A p \in Paths :
          /\ Cardinality(ResultsOf(p)) <= 1
          /\ Cardinality(Queued(p)) <= 1
          /\ Queued(p) # {} => p \in entries /\ ResultsOf(p) # {}
          /\ wpc[p] # "done" => ResultsOf(p) = {}
          /\ (InRun /\ Queued(p) = {}) =>
                \A l \in ResultsOf(p) \ {"skip"} :
                    p \in DOMAIN db.files /\ db.files[p].language = l
    /\ InRun => processed_count + Len(chan) = Cardinality(sent)
    /\ pc \in FinalPhases => AllConsumed

LoopEnd ==
    pc = "consume" =>
        (pc' = "link") = (AllConsumed /\ UNCHANGED <<chan, wpc, consumerVars>>)

\* C31: under every interleaving each file yields at most one ParseResult,
\* none is lost or received twice, the receive loop ends exactly when every
\* task has finished and every result is received, and every run that has
\* started goes on to its end: the pipeline does not deadlock.
C31_PipelineCompletes ==
    /\ []PipelineSafe
    /\ [][LoopEnd]_vars
    /\ (pc = "consume") ~> RunDone

\* C31 witness: a run has ended in which the consumer received the results
\* of three files, of more than one kind.
C31_Witness ==
    /\ RunDone
    /\ processed_count = 3
    /\ Cardinality({s[2] : s \in sent}) >= 2

\* ---- the meta rows
MetaRows(d) == {p \in DOMAIN d.files : d.files[p].index_level = "meta"}

FormerIds(p) == {s.symbol_id : s \in SymbolsOf(start_db, p)}

OccursAt(q, s, i) == i + Len(q) - 1 <= Len(s) /\ SubSeq(s, i, i + Len(q) - 1) = q

StartsWithLiterally(name, q) == OccursAt(Chars(q), Chars(name), 1)

EndsWithLiterally(name, q) ==
    Len(Chars(q)) <= Len(Chars(name))
        /\ OccursAt(Chars(q), Chars(name), Len(Chars(name)) - Len(Chars(q)) + 1)

ContainsLiterally(name, q) ==
    \E i \in 1..(Len(Chars(name)) + 1) : OccursAt(Chars(q), Chars(name), i)

Returned == {output.found_symbol[1]}
               \cup {output.candidates[i].node : i \in DOMAIN output.candidates}

\* C33: every symbol returned by the prefix/suffix layer has a name that
\* starts or ends with Q, and every symbol returned by the substring layer a
\* name that contains Q, character for character: case counts and no
\* character of Q is a wildcard.
C33_LiteralMatch ==
    (ByName(request) /\ output.status = "success" /\ output.match_type # None) =>
        LET q == request.query[1]
        IN  /\ output.match_type[1] = "prefix_suffix" =>
                  \A n \in Returned : StartsWithLiterally(n.name, q)
                                         \/ EndsWithLiterally(n.name, q)
            /\ output.match_type[1] = "substring" =>
                  \A n \in Returned : ContainsLiterally(n.name, q)

\* ---- revisits
Reported == output.direct_callers \o output.indirect_callers

\* C34: the target is in neither list, also when it calls itself or lies on
\* a cycle, and no canonical id is listed twice in direct and indirect taken
\* together, also when two calls join the same pair of symbols.
C34_NoRevisit ==
    Analyzed =>
        /\ output.node_id \notin Ids(Reported)
        /\ \A i, j \in DOMAIN Reported :
              Reported[i].node.id = Reported[j].node.id => i = j

\* ---- the random walks
TargetWalks == Walks(GraphEdges(committed, "ascending"), output.node_id, walk_length)

RECURSIVE Within(_, _, _)
Within(edges, from, k) ==
    IF k = 0 THEN from ELSE Within(edges, from \cup Step(edges, "forward", from), k - 1)

DeadEnd(edges, v) == Neighbours(edges, "forward", v) = <<>>

\* C35: on every call graph, cyclic ones included, each walk ends after
\* counting at most walk_length vertices, each vertex it counts is the target
\* or a callee of the one counted before, so within walk_length - 1 forward
\* edges of the target, a walk goes no further than a vertex without
\* outgoing edge, and the target is counted: coverage is at least 1.
C35_WalksTerminate ==
    Analyzed =>
        LET edges == GraphEdges(committed, "ascending")
        IN  /\ output.node_id \in output.walk_visits
            /\ Cardinality(output.walk_visits) >= 1
            /\ output.walk_visits
                  \subseteq Within(edges, {output.node_id}, walk_length - 1)
            /\ \A v \in output.walk_visits :
                  \E w \in TargetWalks : v \in Range(w)
                                            /\ Range(w) \subseteq output.walk_visits
            /\ \A w \in TargetWalks :
                  /\ Len(w) \in 1..walk_length /\ w[1] = output.node_id
                  /\ \A i \in 1..(Len(w) - 1) :
                        /\ ~DeadEnd(edges, w[i])
                        /\ w[i + 1] \in Step(edges, "forward", {w[i]})

\* C35 witness: the walks went down a chain of twelve functions as far as
\* their length allows, nine edges from the target.
C35_Witness ==
    /\ Analyzed
    /\ Cardinality(output.walk_visits) = walk_length
    /\ Cardinality(Within(GraphEdges(committed, "ascending"), {output.node_id},
                          walk_length)) > walk_length

\* ---- canonical ids
\* C37: after a successful run no two symbol rows share a canonical_id, so
\* a snapshot of the index holds one entry per symbol row, also for a file
\* that defines the same short name of the same kind twice, such as the
\* method run in two classes of one file.
C37_CanonicalIdsAreUnique ==
    RunDone =>
        /\ \A s, t \in committed.symbols : s.canonical_id = t.canonical_id => s = t
        /\ \A order \in ScanOrders :
              Cardinality(DOMAIN run_snapshot(committed, order).symbols)
                 = Cardinality(committed.symbols)

\* ---- the graph
Count(seq, x) == Cardinality({i \in DOMAIN seq : seq[i] = x})

CanonicalIds(d) == {s.canonical_id : s \in d.symbols}

\* the calls of d that are an edge from a to b as the claim reads them
CallsFromTo(d, a, b) ==
    {c \in d.calls :
        /\ \E s \in d.symbols : s.symbol_id = c.caller_id /\ s.canonical_id = a
        /\ \/ c.callee_id = b
           \/ /\ c.callee_id = NULL
              /\ \E s \in d.symbols : s.name = c.callee_name /\ s.canonical_id = b}

\* C36: the graph has one forward edge caller -> callee_id for each call
\* with a callee_id, and for each call without one an edge to every
\* canonical id whose symbol has the name callee_name, none if there is no
\* such symbol; the reverse adjacency is the transpose of the forward one,
\* multiplicities included.
C36_GraphOfCalls ==
    Analyzed =>
        \A order \in ScanOrders :
            LET edges == GraphEdges(committed, order)
                ids == CanonicalIds(committed) \cup {e[2] : e \in Range(edges)}
            IN  /\ \A a, b \in ids :
                      /\ Count(Neighbours(edges, "forward", a), b)
                            = Cardinality(CallsFromTo(committed, a, b))
                      /\ Count(Neighbours(edges, "backward", b), a)
                            = Count(Neighbours(edges, "forward", a), b)
                /\ \A e \in Range(edges) : e[1] \in CanonicalIds(committed)
                /\ \A b \in ids :
                      Count([i \in DOMAIN output.direct_callers |->
                                output.direct_callers[i].node.id], b)
                         = Cardinality(IF request.direction = "forward"
                                       THEN CallsFromTo(committed, output.node_id, b)
                                       ELSE CallsFromTo(committed, b, output.node_id))

\* C36 witness: an analysis, backward, of a symbol named t of the chain,
\* where t is defined in both files and the last function calls t by name
\* only (callee_id null): that caller is listed for the target, and the
\* call is an edge to the other t as well.
C36_Witness ==
    /\ Analyzed
    /\ request.direction = "backward"
    /\ committed = ChainDb
    /\ \E c \in committed.calls :
          /\ c.callee_id = NULL
          /\ Cardinality({s \in committed.symbols : s.name = c.callee_name}) = 2
          /\ \A s \in committed.symbols :
                s.name = c.callee_name =>
                   CallsFromTo(committed, <<"func", "s/axb", "y">>, s.canonical_id)
                      = {c}
    /\ <<"func", "s/axb", "y">> \in Ids(output.direct_callers)

\* ---- the counters
SentAs(kinds) == {p \in Paths : \E l \in kinds : <<p, l>> \in sent}

Written == SentAs({"meta", "py"})

\* C38: at the end of a successful run, whatever the interleaving,
\* parsed_files + meta_files + skipped_files is the number of ParseResults
\* the consumer processed and at most total_files, no file is counted by two
\* of the counters, and the files written to the database number
\* parsed_files + meta_files.
C38_CountersAddUp ==
    RunDone =>
        /\ summary.parsed_files + summary.meta_files + summary.skipped_files
              = processed_count
        /\ processed_count <= summary.total_files
        /\ summary.parsed_files = Cardinality(SentAs({"py"}))
        /\ summary.meta_files = Cardinality(SentAs({"meta"}))
        /\ summary.skipped_files = Cardinality(SentAs({"skip"}))
        /\ \A k, l \in {"py", "meta", "skip"} :
              k # l => SentAs({k}) \cap SentAs({l}) = {}
        /\ Cardinality(Written) = summary.parsed_files + summary.meta_files
        /\ \A p \in Written :
              /\ p \in DOMAIN committed.files
              /\ <<p, committed.files[p].language>> \in sent
        /\ \A p \in entries \ Written :
              /\ (p \in DOMAIN committed.files) = (p \in DOMAIN start_db.files)
              /\ p \in DOMAIN committed.files =>
                    /\ committed.files[p] = start_db.files[p]
                    /\ SymbolsOf(committed, p) = SymbolsOf(start_db, p)

\* C38 witness: a run has ended that parsed a file, persisted one as meta
\* and skipped one.
C38_Witness ==
    /\ RunDone
    /\ summary.parsed_files = 1 /\ summary.meta_files = 1
    /\ summary.skipped_files = 1
    /\ processed_count = summary.total_files

\* ---- analyses of an index made by runs
\* C39: on every database that successful runs over a changing tree leave
\* behind, an analysis whose target is found ends with status success in
\* both directions: every vertex it reaches is the canonical id of a symbol,
\* so no node lookup fails.
C39_AnalyzeSucceeds ==
    (pc = "idle" /\ request # NoRequest /\ request.mode = "analyze"
        /\ Resolvable(committed, request)) =>
        /\ output.status = "success"
        /\ Ids(Reported) \subseteq CanonicalIds(committed)

====
